---- MODULE Spec2Model ----
(***************************************************************************)
(* The ITSM helper: five request handlers over two key-value collections   *)
(* (tracked_entities, dedup_store) and one outbound ITSM RPC.              *)
(*                                                                         *)
(* Every request runs in its own slot p \in Procs.  A handler is cut at    *)
(* its outbound calls (KV get, ITSM RPC, KV put): each call is one atomic  *)
(* step against the shared store, and the code between two calls belongs   *)
(* to the step of the call that precedes it.  Requests interleave freely   *)
(* at those points.  A slot serves one request and then keeps its          *)
(* response, so that responses of a run can be compared.                   *)
(*                                                                         *)
(* Strings are TLA+ strings; a Go error is its message, "" being nil.      *)
(***************************************************************************)
EXTENDS Integers, Sequences, FiniteSets, TLC

\* ------------------------------------------------------------------ bounds
\* number of request slots (requests of one run)
NumProcs == 3
\* how many minutes the injectable clock may advance in one run
MaxAdvance == 6

Procs == 1..NumProcs

\* ------------------------------------------------------- program constants
CollectionNameTrackedEntities == "tracked_entities"
CollectionNameDedupStore == "dedup_store"

TimeBucketForever == "forever"
TimeBucketFiveMin == "5 minutes"
TimeBucketThirtyMin == "30 minutes"

ExternalSystemIDServiceNowIncident == "servicenow_incident"
ExternalSystemIDServiceNowSIRIncident == "servicenow_sir_incident"
pluginOpIDServiceNowCreateIncident == "create_incident"
pluginOpIDServiceNowCreateSIRIncident == "create_sn_si_incident"

StatusOK == 200
StatusCreated == 201
StatusInternalServerError == 500
\* sanitizeObjectKey's length limit
MaxKeyLen == 1000

\* ------------------------------------------------------------ string tools
Char(s, i) == SubSeq(s, i, i)

\* strings.Contains
Contains(s, t) ==
    \E i \in 1..(Len(s) - Len(t) + 1) : SubSeq(s, i, i + Len(t) - 1) = t

HasPrefix(s, t) == Len(s) >= Len(t) /\ SubSeq(s, 1, Len(t)) = t

\* fmt's %02d for 0 <= n < 100
Digit(n) == Char("0123456789", n + 1)
TwoDigits(n) == Digit(n \div 10) \o Digit(n % 10)

\* strings.Join(parts, sep)
RECURSIVE Join(_, _)
Join(parts, sep) ==
    IF Len(parts) = 0 THEN ""
    ELSE IF Len(parts) = 1 THEN parts[1]
    ELSE parts[1] \o sep \o Join(Tail(parts), sep)

\* ------------------------------------------------------------- time bucket
\* The injectable time source: minutes elapsed since 2023-05-15T00:00Z.
ClockStart == 10 * 60 + 24

\* now.Format("2006-01-02"), for the days of the modelled window
DatePart(now) == "2023-05-" \o TwoDigits(15 + (now \div (24 * 60)))
Hour(now) == (now % (24 * 60)) \div 60
Minute(now) == now % 60

\* calculateTimeBucket rounding to the nearest interval instead of down
calculateTimeBucket_RoundNearest(tb, now) ==
    IF tb \notin {TimeBucketForever, TimeBucketFiveMin, TimeBucketThirtyMin}
    THEN [label |-> "", err |-> "invalid time bucket: " \o tb]
    ELSE IF tb = TimeBucketForever
    THEN [label |-> "forever_bucket", err |-> ""]
    ELSE LET minuteInterval ==
                 IF tb = TimeBucketFiveMin THEN ((Minute(now) + 2) \div 5) * 5
                 ELSE ((Minute(now) + 15) \div 30) * 30
             minutePart == TwoDigits(Hour(now)) \o ":" \o TwoDigits(minuteInterval)
         IN [label |-> DatePart(now) \o "_" \o minutePart, err |-> ""]

\* calculateTimeBucket with the minute interval left out of the label
calculateTimeBucket_HourOnly(tb, now) ==
    IF tb \notin {TimeBucketForever, TimeBucketFiveMin, TimeBucketThirtyMin}
    THEN [label |-> "", err |-> "invalid time bucket: " \o tb]
    ELSE IF tb = TimeBucketForever
    THEN [label |-> "forever_bucket", err |-> ""]
    ELSE [label |-> DatePart(now) \o "_" \o TwoDigits(Hour(now)) \o ":00", err |-> ""]

\* calculateTimeBucket with "forever" falling through to the time-based
\* labels
calculateTimeBucket_ForeverTimed(tb, now) ==
    IF tb \notin {TimeBucketForever, TimeBucketFiveMin, TimeBucketThirtyMin}
    THEN [label |-> "", err |-> "invalid time bucket: " \o tb]
    ELSE LET minuteInterval ==
                 IF tb = TimeBucketFiveMin THEN (Minute(now) \div 5) * 5
                 ELSE (Minute(now) \div 30) * 30
             minutePart == TwoDigits(Hour(now)) \o ":" \o TwoDigits(minuteInterval)
         IN [label |-> DatePart(now) \o "_" \o minutePart, err |-> ""]

\* calculateTimeBucket: [label, err]
calculateTimeBucket(tb, now) ==
    IF tb \notin {TimeBucketForever, TimeBucketFiveMin, TimeBucketThirtyMin}
    THEN [label |-> "", err |-> "invalid time bucket: " \o tb]
    ELSE IF tb = TimeBucketForever
    THEN [label |-> "forever_bucket", err |-> ""]
    ELSE LET minuteInterval ==
                 IF tb = TimeBucketFiveMin THEN (Minute(now) \div 5) * 5
                 ELSE (Minute(now) \div 30) * 30
             minutePart == TwoDigits(Hour(now)) \o ":" \o TwoDigits(minuteInterval)
         IN [label |-> DatePart(now) \o "_" \o minutePart, err |-> ""]

\* ------------------------------------------------------------------- keys
\* hex(md5(s)): a digest is modelled as a tag around its input, i.e. as a
\* collision-free function of the joined string (the join itself is not
\* injective and is modelled as it is computed).
Md5Hex(s) == "md5(" \o s \o ")"

\* CheckThrottlingStore, the key derivation
DedupKey(internalEntityID, dedupObjType, dedupObjId, currentBucket) ==
    Md5Hex(Join(<<internalEntityID, dedupObjType, dedupObjId, currentBucket>>, ":"))

AllowedChars ==
    LET cs == "abcdefghijklmnopqrstuvwxyzABCDEFGHIJKLMNOPQRSTUVWXYZ0123456789._-"
    IN {Char(cs, i) : i \in 1..Len(cs)}

\* every character of input outside `allowed` replaced by "_", the others
\* kept; the matches of a one-character class are replaced independently of
\* each other, so the halves of the input are rewritten separately
RECURSIVE ReplaceChars(_, _)
ReplaceChars(input, allowed) ==
    IF Len(input) = 0 THEN ""
    ELSE IF Len(input) = 1 THEN (IF input \in allowed THEN input ELSE "_")
    ELSE LET half == Len(input) \div 2
         IN ReplaceChars(SubSeq(input, 1, half), allowed)
                \o ReplaceChars(SubSeq(input, half + 1, Len(input)), allowed)

\* ReplaceAllString for a character class that leaves out the dot
ReplaceAllString_NoDot(input) == ReplaceChars(input, AllowedChars \ {"."})

\* regexp.MustCompile(`[^a-zA-Z0-9._-]`).ReplaceAllString(input, "_")
ReplaceAllString(input) == ReplaceChars(input, AllowedChars)

\* sanitizeObjectKey: [key, err]
sanitizeObjectKey(input) ==
    LET sanitized == ReplaceAllString(input)
    IN IF Len(sanitized) > MaxKeyLen
       THEN [key |-> "", err |-> "object key exceeds maximum length of 1000 characters"]
       ELSE [key |-> sanitized, err |-> ""]

\* CreateTrackedEntityKey with the key derived from the entity alone
CreateTrackedEntityKey_EntityOnly(externalSystemID, internalEntityID) ==
    sanitizeObjectKey(internalEntityID)

\* CreateTrackedEntityKey: [key, err]
CreateTrackedEntityKey(externalSystemID, internalEntityID) ==
    sanitizeObjectKey(externalSystemID \o "." \o internalEntityID)

\* --------------------------------------------------------- records, bodies
\* ExternalEntityRecord
ExternalEntityRecord(internalEntityID, externalEntityID, externalSystemID) ==
    [internal_entity_id |-> internalEntityID,
     external_entity_id |-> externalEntityID,
     external_system_id |-> externalSystemID]

NoRecord == ExternalEntityRecord("", "", "")

\* DedupStoreRecord
DedupStoreRecord(tb) == [time_bucket |-> tb]

\* json.NewEncoder(..).Encode(v): the stored object is the JSON text of v,
\* modelled as the JSON object it denotes.
JsonEncode(v) == [valid |-> TRUE, obj |-> v]

\* UnmarshalExternalEntityRecord with a field tag that differs from the
\* one the record is encoded with
UnmarshalExternalEntityRecord_WrongTag(body) ==
    IF ~body.valid
    THEN [rec |-> NoRecord, err |-> "invalid character"]
    ELSE LET f(name) == IF name \in DOMAIN body.obj THEN body.obj[name] ELSE ""
         IN [rec |-> ExternalEntityRecord(f("internal_entity_id"),
                                          f("external_id"),
                                          f("external_system_id")),
             err |-> ""]

\* json.Unmarshal into an ExternalEntityRecord: [rec, err]; absent fields
\* keep their zero value
UnmarshalExternalEntityRecord(body) ==
    IF ~body.valid
    THEN [rec |-> NoRecord, err |-> "invalid character"]
    ELSE LET f(name) == IF name \in DOMAIN body.obj THEN body.obj[name] ELSE ""
         IN [rec |-> ExternalEntityRecord(f("internal_entity_id"),
                                          f("external_entity_id"),
                                          f("external_system_id")),
             err |-> ""]

\* json.Unmarshal into a DedupStoreRecord: [rec, err]
UnmarshalDedupStoreRecord(body) ==
    IF ~body.valid
    THEN [rec |-> DedupStoreRecord(""), err |-> "invalid character"]
    ELSE [rec |-> DedupStoreRecord(IF "time_bucket" \in DOMAIN body.obj
                                   THEN body.obj["time_bucket"] ELSE ""),
          err |-> ""]

\* ---------------------------------------------------------------- KV store
\* A collection is a function from the keys it holds to the stored objects.
\* StorageService.GetObject: [body, err].  fault is the backend's choice to
\* fail the call; an absent key is reported as a "status 404" error.
NoObject == [valid |-> FALSE, obj |-> <<>>]

GetObject(collection, key, fault) ==
    IF fault THEN [body |-> NoObject, err |-> "[GET /customobjects][500] status 500"]
    ELSE IF key \notin DOMAIN collection
    THEN [body |-> NoObject, err |-> "[GET /customobjects][404] status 404"]
    ELSE [body |-> collection[key], err |-> ""]

\* PutObject with the collection's other objects dropped
PutObject_DropsOthers(collection, key, body) == [k \in {key} |-> body]

\* StorageService.PutObject, when the backend accepts it: the key's object
\* is replaced unconditionally
PutObject(collection, key, body) ==
    [k \in (DOMAIN collection) \cup {key} |-> IF k = key THEN body ELSE collection[k]]

PutFault == "[PUT /customobjects][500] status 500"

\* --------------------------------------------------------------- responses
NoBody == <<>>
\* fdk.ErrResp(fdk.APIError{Code, Message})
ErrResp(code, message) ==
    [code |-> code, body |-> NoBody, errors |-> <<[code |-> code, message |-> message]>>]
\* fdk.Response{Code, Body: fdk.JSON(body)}
Response(code, body) == [code |-> code, body |-> body, errors |-> <<>>]
NoResponse == [code |-> 0, body |-> NoBody, errors |-> <<>>]

IsError(r) == Len(r.errors) > 0
Message(r) == r.errors[1].message
HasField(r, name) == name \in DOMAIN r.body

\* ------------------------------------------------- ITSM responses (JSON)
\* A decoded JSON value (interface{}): a string, a number, null, or an
\* object (map[string]interface{}) given as a function from its keys.
JStr(str) == [t |-> "string", s |-> str, o |-> <<>>]
JNum(str) == [t |-> "number", s |-> str, o |-> <<>>]
JNull == [t |-> "null", s |-> "", o |-> <<>>]
JBool(str) == [t |-> "bool", s |-> str, o |-> <<>>]
JObj(fields) == [t |-> "object", s |-> "", o |-> fields]

\* byte order of strings, as encoding/json sorts the keys of a map
ByteOrder == "_abcdefghijklmnopqrstuvwxyz"
Rank(c) == CHOOSE i \in 1..Len(ByteOrder) : Char(ByteOrder, i) = c
RECURSIVE StrLess(_, _)
StrLess(a, b) ==
    IF Len(b) = 0 THEN FALSE
    ELSE IF Len(a) = 0 THEN TRUE
    ELSE IF Head(a) = Head(b) THEN StrLess(Tail(a), Tail(b))
    ELSE Rank(Head(a)) < Rank(Head(b))

\* json.Marshal of a decoded value; object keys in sorted order
RECURSIVE JsonMarshal(_)
RECURSIVE MarshalFields(_, _)
MarshalFields(fields, keys) ==
    IF keys = {} THEN ""
    ELSE LET k == CHOOSE x \in keys : \A y \in keys \ {x} : StrLess(x, y)
         IN "\"" \o k \o "\":" \o JsonMarshal(fields[k])
            \o (IF keys = {k} THEN "" ELSE ",")
            \o MarshalFields(fields, keys \ {k})
JsonMarshal(v) ==
    IF v.t = "string" THEN "\"" \o v.s \o "\""
    ELSE IF v.t = "number" THEN v.s
    ELSE IF v.t = "null" THEN "null"
    ELSE IF v.t = "bool" THEN v.s
    ELSE "{" \o MarshalFields(v.o, DOMAIN v.o) \o "}"

\* json.Unmarshal of a text into a map[string]interface{}: the text is read
\* as one JSON value (strings without escapes, unsigned integers, the
\* literals, objects), with blanks between the tokens; a later member
\* replaces an earlier one of the same key.  A text that is no JSON value,
\* or a value followed by more text, is a syntax error; null leaves the
\* map nil; any other value that is no object is a type error.
At(s, i) == IF i \in 1..Len(s) THEN Char(s, i) ELSE ""
IsDigit(c) == c # "" /\ Contains("0123456789", c)
StartsAt(s, i, t) == i + Len(t) - 1 <= Len(s) /\ SubSeq(s, i, i + Len(t) - 1) = t
SkipSpace(s, i) ==
    CHOOSE j \in i..(Len(s) + 1) :
        At(s, j) # " " /\ \A k \in i..(j - 1) : At(s, k) = " "
FindQuote(s, i) ==
    IF \E j \in i..Len(s) : Char(s, j) = "\""
    THEN CHOOSE j \in i..Len(s) :
             Char(s, j) = "\"" /\ \A k \in i..(j - 1) : Char(s, k) # "\""
    ELSE 0
DigitsEnd(s, i) ==
    CHOOSE j \in i..(Len(s) + 1) :
        ~IsDigit(At(s, j)) /\ \A k \in i..(j - 1) : IsDigit(At(s, k))
ParseFail == [ok |-> FALSE, v |-> JNull, next |-> 0]
Parsed(v, next) == [ok |-> TRUE, v |-> v, next |-> next]
SetField(fields, key, value) ==
    [k \in DOMAIN fields \cup {key} |-> IF k = key THEN value ELSE fields[k]]

RECURSIVE ParseValue(_, _)
RECURSIVE ParseMembers(_, _, _)
ParseMembers(s, i, acc) ==
    IF At(s, i) # "\"" THEN ParseFail
    ELSE LET j == FindQuote(s, i + 1)
         IN IF j = 0 THEN ParseFail
            ELSE LET key == SubSeq(s, i + 1, j - 1)
                     c == SkipSpace(s, j + 1)
                 IN IF At(s, c) # ":" THEN ParseFail
                    ELSE LET val == ParseValue(s, c + 1)
                         IN IF ~val.ok THEN ParseFail
                            ELSE LET acc2 == SetField(acc, key, val.v)
                                     n == SkipSpace(s, val.next)
                                 IN IF At(s, n) = ","
                                    THEN ParseMembers(s, SkipSpace(s, n + 1), acc2)
                                    ELSE IF At(s, n) = "}"
                                    THEN Parsed(JObj(acc2), n + 1)
                                    ELSE ParseFail
ParseValue(s, i0) ==
    LET i == SkipSpace(s, i0)
        c == At(s, i)
    IN IF c = "\""
       THEN LET j == FindQuote(s, i + 1)
            IN IF j = 0 THEN ParseFail ELSE Parsed(JStr(SubSeq(s, i + 1, j - 1)), j + 1)
       ELSE IF IsDigit(c)
       THEN LET j == DigitsEnd(s, i) IN Parsed(JNum(SubSeq(s, i, j - 1)), j)
       ELSE IF StartsAt(s, i, "null") THEN Parsed(JNull, i + 4)
       ELSE IF StartsAt(s, i, "true") THEN Parsed(JBool("true"), i + 4)
       ELSE IF StartsAt(s, i, "false") THEN Parsed(JBool("false"), i + 5)
       ELSE IF c = "{"
       THEN LET j == SkipSpace(s, i + 1)
            IN IF At(s, j) = "}" THEN Parsed(JObj(<<>>), j + 1)
               ELSE ParseMembers(s, j, <<>>)
       ELSE ParseFail

JsonUnmarshalMap(text) ==
    LET r == ParseValue(text, 1)
    IN IF ~r.ok \/ SkipSpace(text, r.next) # Len(text) + 1
       THEN [err |-> "invalid character", fields |-> <<>>]
       ELSE IF r.v.t = "object" THEN [err |-> "", fields |-> r.v.o]
       ELSE IF r.v.t = "null" THEN [err |-> "", fields |-> <<>>]
       ELSE [err |-> "json: cannot unmarshal " \o r.v.t
                         \o " into Go value of type map[string]interface {}",
             fields |-> <<>>]

\* What ExecuteCommand hands back: a transport error, or a response that
\* may be nil, may lack its payload, and lists resources, each nil or
\* carrying a response body.
ExecResp(err, isNil, payloadNil, resources) ==
    [err |-> err, isNil |-> isNil, payloadNil |-> payloadNil, resources |-> resources]
NoExecResp == ExecResp("", TRUE, TRUE, <<>>)
Resource(body) == [isNil |-> FALSE, ResponseBody |-> body]
NilResource == [isNil |-> TRUE, ResponseBody |-> JNull]
Answer(body) == ExecResp("", FALSE, FALSE, <<Resource(body)>>)

\* ------------------------------------------------------------------- state
VARIABLES
    tracked_entities,   \* collection tracked_entities
    dedup_store,        \* collection dedup_store
    clock,              \* timeNow(), minutes since 2023-05-15T00:00Z
    pc,                 \* per slot: "idle", the pending outbound call, "done"
    handler,            \* per slot: the endpoint that serves the request
    req,                \* per slot: the request body
    loc,                \* per slot: the handler's local variables
    resp,               \* per slot: the response, once pc = "done"
    calls,              \* per slot: the outbound calls issued, in order
    pred,               \* per slot: the requests finished before it started
    writer              \* per key of tracked_entities: the slot whose put it holds

vars == <<tracked_entities, dedup_store, clock, pc, handler, req, loc, resp, calls, pred, writer>>

EmptyReq ==
    [internal_entity_id |-> "", external_entity_id |-> "", external_system_id |-> "",
     entity_id |-> "", dedup_obj_type |-> "", dedup_obj_id |-> "", time_bucket |-> "",
     trace_id |-> "",
     assignment_group |-> "", category |-> "", description |-> "", impact |-> "",
     severity |-> "", short_description |-> "", state |-> "", urgency |-> "",
     work_notes |-> "", custom_fields |-> ""]

NoLoc ==
    [client |-> "none", now |-> 0, err |-> "", input |-> "",
     key |-> "", bucket |-> "", get |-> "none", rpc |-> "none", put |-> "none", readFrom |-> 0,
     extRecord |-> NoRecord, entityRecord |-> NoRecord, execResp |-> NoExecResp,
     snowSysID |-> "", snowSysClassName |-> "", requestPayload |-> <<>>,
     operationID |-> ""]

Init ==
    /\ tracked_entities = <<>>
    /\ dedup_store = <<>>
    /\ clock = ClockStart
    /\ pc = [p \in Procs |-> "idle"]
    /\ handler = [p \in Procs |-> "none"]
    /\ req = [p \in Procs |-> EmptyReq]
    /\ loc = [p \in Procs |-> NoLoc]
    /\ resp = [p \in Procs |-> NoResponse]
    /\ calls = [p \in Procs |-> <<>>]
    /\ pred = [p \in Procs |-> {}]
    /\ writer = <<>>

\* Request slots are interchangeable: they are taken in order.
CanStart(p) == pc[p] = "idle" /\ (IF p = 1 THEN TRUE ELSE pc[p - 1] # "idle")

Done == {q \in Procs : pc[q] = "done"}

\* A request arrives at endpoint h with body b and reaches its first
\* outbound call (next # "done") or is answered at once.
Begin(p, h, b, l, next, r) ==
    /\ handler' = [handler EXCEPT ![p] = h]
    /\ req' = [req EXCEPT ![p] = b]
    /\ loc' = [loc EXCEPT ![p] = l]
    /\ pc' = [pc EXCEPT ![p] = next]
    /\ resp' = [resp EXCEPT ![p] = r]
    /\ pred' = [pred EXCEPT ![p] = Done]
    /\ UNCHANGED <<tracked_entities, dedup_store, writer, clock, calls>>

\* The request issues the outbound call `call` and goes on to `next`.
Step(p, call, l, next, r) ==
    /\ loc' = [loc EXCEPT ![p] = l]
    /\ pc' = [pc EXCEPT ![p] = next]
    /\ resp' = [resp EXCEPT ![p] = r]
    /\ calls' = [calls EXCEPT ![p] = Append(@, call)]
    /\ UNCHANGED <<clock, handler, req, pred>>

\* falconClientFunc's outcomes: nil, or an error
ClientErrs == {"", "no credentials"}
\* a request's locals once falconClientFunc has returned
ClientBuilt == [NoLoc EXCEPT !.client = "ok"]
ClientFailed == [NoLoc EXCEPT !.client = "error"]
ClientErrResp(err) ==
    ErrResp(StatusInternalServerError, "error creating Falcon client: " \o err)

\* the backend's choice for a get or a put: serve it, or fail it
Faults == BOOLEAN

\* ----------------------------------------------------------------- clock
\* The clock advances by itself.  Bucket labels change only where a
\* five-minute window starts, so time is advanced from one window to the
\* start of the next.
NextWindow(now) == ((now \div 5) + 1) * 5
Tick ==
    /\ NextWindow(clock) <= ClockStart + MaxAdvance
    /\ clock' = NextWindow(clock)
    /\ UNCHANGED <<tracked_entities, dedup_store, writer, pc, handler, req, loc, resp, calls, pred>>

\* ---------------------------------------------------------------- throttle
\* request bodies of the throttle endpoint
ThrottleBodies ==
    {[EmptyReq EXCEPT !.internal_entity_id = "e", !.dedup_obj_type = "alert",
                      !.dedup_obj_id = id, !.time_bucket = tb] :
        id \in {"a1"},
        tb \in {TimeBucketForever, TimeBucketFiveMin, TimeBucketThirtyMin, "1 hour"}}

UnsupportedBucketMsg(timeBucket) ==
    "unsupported time bucket value: " \o timeBucket \o " (must be one of: "
        \o TimeBucketForever \o ", " \o TimeBucketFiveMin \o ", "
        \o TimeBucketThirtyMin \o ")"

\* HandleThrottle's answer from CheckThrottlingStore's (isDuplicate, err)
ThrottleResponse(isDuplicate, err) ==
    IF err # "" THEN ErrResp(StatusInternalServerError, err)
    ELSE Response(StatusOK, [allowed |-> ~isDuplicate])

\* HandleThrottle with CheckThrottlingStore's own validation of the bucket
\* left out
HandleThrottle_NoValidation(p, body, clientErr) ==
    /\ CanStart(p)
    /\ IF clientErr # ""
       THEN Begin(p, "throttle", body, ClientFailed, "done", ClientErrResp(clientErr))
       ELSE LET tb == body.time_bucket
                cur == calculateTimeBucket(tb, clock)
            IN IF cur.err # ""
               THEN Begin(p, "throttle", body, ClientBuilt, "done",
                          ThrottleResponse(FALSE, "failed to calculate time bucket: " \o cur.err))
               ELSE Begin(p, "throttle", body,
                          [ClientBuilt EXCEPT !.now = clock, !.bucket = cur.label,
                                              !.key = DedupKey(body.internal_entity_id,
                                                               body.dedup_obj_type,
                                                               body.dedup_obj_id, cur.label)],
                          "get", NoResponse)

\* HandleThrottle up to CheckThrottlingStore's get: client, bucket
\* validation, bucket label and key
HandleThrottle(p, body, clientErr) ==
    /\ CanStart(p)
    /\ IF clientErr # ""
       THEN Begin(p, "throttle", body, ClientFailed, "done", ClientErrResp(clientErr))
       ELSE LET tb == body.time_bucket
                cur == calculateTimeBucket(tb, clock)
            IN IF tb \notin {TimeBucketForever, TimeBucketFiveMin, TimeBucketThirtyMin}
               THEN Begin(p, "throttle", body, ClientBuilt, "done",
                          ThrottleResponse(FALSE, UnsupportedBucketMsg(tb)))
               ELSE IF cur.err # ""
               THEN Begin(p, "throttle", body, ClientBuilt, "done",
                          ThrottleResponse(FALSE, "failed to calculate time bucket: " \o cur.err))
               ELSE Begin(p, "throttle", body,
                          [ClientBuilt EXCEPT !.now = clock, !.bucket = cur.label,
                                        !.key = DedupKey(body.internal_entity_id,
                                                         body.dedup_obj_type,
                                                         body.dedup_obj_id, cur.label)],
                          "get", NoResponse)

\* DedupHit with the existing record not reported as a duplicate
DedupHit_NotDuplicate(body) == [isDuplicate |-> FALSE, err |-> ""]

\* DedupHit with the decoding error of the fetched object dropped
DedupHit_Lenient(body) == [isDuplicate |-> TRUE, err |-> ""]

\* CheckThrottlingStore's result for a fetched object: (isDuplicate, err)
DedupHit(body) ==
    LET u == UnmarshalDedupStoreRecord(body)
    IN IF u.err # ""
       THEN [isDuplicate |-> FALSE, err |-> "failed to unmarshal dedup record: " \o u.err]
       ELSE [isDuplicate |-> TRUE, err |-> ""]

\* ThrottleGet with every error of the get taken for "not found"
ThrottleGet_AnyErrorIsMiss(p, fault) ==
    /\ handler[p] = "throttle" /\ pc[p] = "get"
    /\ LET got == GetObject(dedup_store, loc[p].key, fault)
       IN IF got.err # ""
          THEN Step(p, "get", [loc[p] EXCEPT !.get = "miss"], "put", NoResponse)
          ELSE LET hit == DedupHit(got.body)
               IN Step(p, "get", [loc[p] EXCEPT !.get = "hit"], "done",
                       ThrottleResponse(hit.isDuplicate, hit.err))
    /\ UNCHANGED <<tracked_entities, dedup_store, writer>>

\* CheckThrottlingStore: the get and what follows it up to the put
ThrottleGet(p, fault) ==
    /\ handler[p] = "throttle" /\ pc[p] = "get"
    /\ LET got == GetObject(dedup_store, loc[p].key, fault)
       IN IF got.err # ""
          THEN IF Contains(got.err, "status 404")
               THEN Step(p, "get", [loc[p] EXCEPT !.get = "miss"], "put", NoResponse)
               ELSE Step(p, "get", [loc[p] EXCEPT !.get = "error"], "done",
                         ThrottleResponse(FALSE, "failed to check dedup record: " \o got.err))
          ELSE LET hit == DedupHit(got.body)
               IN Step(p, "get", [loc[p] EXCEPT !.get = "hit"], "done",
                       ThrottleResponse(hit.isDuplicate, hit.err))
    /\ UNCHANGED <<tracked_entities, dedup_store, writer>>

\* ThrottlePut with the new record never stored
ThrottlePut_NoStore(p, fault) ==
    /\ handler[p] = "throttle" /\ pc[p] = "put"
    /\ IF fault
       THEN Step(p, "put", [loc[p] EXCEPT !.put = "error"], "done",
                 ThrottleResponse(FALSE, "failed to store dedup record: " \o PutFault))
       ELSE Step(p, "put", [loc[p] EXCEPT !.put = "ok"], "done",
                 ThrottleResponse(FALSE, ""))
    /\ UNCHANGED <<tracked_entities, dedup_store, writer>>

\* ThrottlePut with the record stored under the bucket label instead of
\* the digest
ThrottlePut_WrongKey(p, fault) ==
    /\ handler[p] = "throttle" /\ pc[p] = "put"
    /\ IF fault
       THEN /\ Step(p, "put", [loc[p] EXCEPT !.put = "error"], "done",
                    ThrottleResponse(FALSE, "failed to store dedup record: " \o PutFault))
            /\ UNCHANGED dedup_store
       ELSE /\ Step(p, "put", [loc[p] EXCEPT !.put = "ok"], "done",
                    ThrottleResponse(FALSE, ""))
            /\ dedup_store' = PutObject(dedup_store, loc[p].bucket,
                                        JsonEncode(DedupStoreRecord(req[p].time_bucket)))
    /\ UNCHANGED <<tracked_entities, writer>>

\* ThrottlePut with the bucket label stored in place of the request's
\* time_bucket
ThrottlePut_StoresLabel(p, fault) ==
    /\ handler[p] = "throttle" /\ pc[p] = "put"
    /\ IF fault
       THEN /\ Step(p, "put", [loc[p] EXCEPT !.put = "error"], "done",
                    ThrottleResponse(FALSE, "failed to store dedup record: " \o PutFault))
            /\ UNCHANGED dedup_store
       ELSE /\ Step(p, "put", [loc[p] EXCEPT !.put = "ok"], "done",
                    ThrottleResponse(FALSE, ""))
            /\ dedup_store' = PutObject(dedup_store, loc[p].key,
                                        JsonEncode(DedupStoreRecord(loc[p].bucket)))
    /\ UNCHANGED <<tracked_entities, writer>>

\* ThrottlePut with the request that stored the record reported as a
\* duplicate
ThrottlePut_StoresAndDenies(p, fault) ==
    /\ handler[p] = "throttle" /\ pc[p] = "put"
    /\ IF fault
       THEN /\ Step(p, "put", [loc[p] EXCEPT !.put = "error"], "done",
                    ThrottleResponse(FALSE, "failed to store dedup record: " \o PutFault))
            /\ UNCHANGED dedup_store
       ELSE /\ Step(p, "put", [loc[p] EXCEPT !.put = "ok"], "done",
                    ThrottleResponse(TRUE, ""))
            /\ dedup_store' = PutObject(dedup_store, loc[p].key,
                                        JsonEncode(DedupStoreRecord(req[p].time_bucket)))
    /\ UNCHANGED <<tracked_entities, writer>>

\* CheckThrottlingStore: the put of the new dedup record and the return
ThrottlePut(p, fault) ==
    /\ handler[p] = "throttle" /\ pc[p] = "put"
    /\ IF fault
       THEN /\ Step(p, "put", [loc[p] EXCEPT !.put = "error"], "done",
                    ThrottleResponse(FALSE, "failed to store dedup record: " \o PutFault))
            /\ UNCHANGED dedup_store
       ELSE /\ Step(p, "put", [loc[p] EXCEPT !.put = "ok"], "done",
                    ThrottleResponse(FALSE, ""))
            /\ dedup_store' = PutObject(dedup_store, loc[p].key,
                                        JsonEncode(DedupStoreRecord(req[p].time_bucket)))
    /\ UNCHANGED <<tracked_entities, writer>>

DoHandleThrottle == \E p \in Procs, b \in ThrottleBodies, e \in ClientErrs : HandleThrottle(p, b, e)
DoThrottleGet == \E p \in Procs, f \in Faults : ThrottleGet(p, f)
DoThrottlePut == \E p \in Procs, f \in Faults : ThrottlePut(p, f)

\* The throttle endpoint alone, under any interleaving and any clock.
NextThrottle == DoHandleThrottle \/ DoThrottleGet \/ DoThrottlePut \/ Tick
SpecThrottle == Init /\ [][NextThrottle]_vars

\* Throttle requests whose fields contain the separator of the key's join:
\* three subjects, two of which differ only in where the ":" falls.
TupleBodies ==
    {[EmptyReq EXCEPT !.internal_entity_id = "e", !.dedup_obj_type = t,
                      !.dedup_obj_id = id, !.time_bucket = TimeBucketForever] :
        <<t, id>> \in {<<"alert", "a1">>, <<"alert:x", "a1">>, <<"alert", "x:a1">>}}

\* The throttle endpoint over these subjects, the clock standing still.
NextTuples ==
    \/ \E p \in Procs, b \in TupleBodies, e \in ClientErrs : HandleThrottle(p, b, e)
    \/ DoThrottleGet
    \/ DoThrottlePut
SpecTuples == Init /\ [][NextTuples]_vars

\* The throttle endpoint against a dedup_store that is empty or already
\* holds, at the key of the "forever" request, an object that is no JSON
\* (the collection is the platform's; the tests hand the handler such an
\* object).  The clock stands still.
InvalidObject == [valid |-> FALSE, obj |-> <<>>]
StoredAtStart ==
    {<<>>,
     PutObject(<<>>, DedupKey("e", "alert", "a1", calculateTimeBucket(TimeBucketForever, ClockStart).label),
               InvalidObject)}
InitStored ==
    /\ tracked_entities = <<>>
    /\ dedup_store \in StoredAtStart
    /\ clock = ClockStart
    /\ pc = [p \in Procs |-> "idle"]
    /\ handler = [p \in Procs |-> "none"]
    /\ req = [p \in Procs |-> EmptyReq]
    /\ loc = [p \in Procs |-> NoLoc]
    /\ resp = [p \in Procs |-> NoResponse]
    /\ calls = [p \in Procs |-> <<>>]
    /\ pred = [p \in Procs |-> {}]
    /\ writer = <<>>
NextStored == DoHandleThrottle \/ DoThrottleGet \/ DoThrottlePut
SpecThrottleStored == InitStored /\ [][NextStored]_vars

\* ------------------------------------------------ the bucket label alone
\* instants the time source is set to: around the window boundaries of an
\* hour, at midnight, at the end of an hour, across a change of day, and
\* at the same time of the next day
Instants ==
    (0..5) \cup (600..635) \cup (655..660) \cup (1425..1445) \cup (2060..2064)

\* the two evaluations that are compared
Pair == {1, 2}

\* timeNow is set to return t, and calculateTimeBucket(tb) is evaluated
CalculateAt(p, tb, t) ==
    /\ CanStart(p)
    /\ LET cur == calculateTimeBucket(tb, t)
       IN /\ handler' = [handler EXCEPT ![p] = "calculateTimeBucket"]
          /\ req' = [req EXCEPT ![p] = [EmptyReq EXCEPT !.time_bucket = tb]]
          /\ loc' = [loc EXCEPT ![p] = [NoLoc EXCEPT !.now = t, !.bucket = cur.label,
                                                     !.err = cur.err]]
    /\ clock' = t
    /\ pc' = [pc EXCEPT ![p] = "done"]
    /\ pred' = [pred EXCEPT ![p] = Done]
    /\ UNCHANGED <<tracked_entities, dedup_store, writer, resp, calls>>

NextBucket ==
    \E p \in Pair, t \in Instants,
       tb \in {TimeBucketForever, TimeBucketFiveMin, TimeBucketThirtyMin, "1 hour"} :
        CalculateAt(p, tb, t)
SpecBucket == Init /\ [][NextBucket]_vars

\* ------------------------------------------------------ the key alone
\* n copies of s
RECURSIVE Repeat(_, _)
Repeat(s, n) ==
    IF n = 0 THEN ""
    ELSE IF n % 2 = 0 THEN LET half == Repeat(s, n \div 2) IN half \o half
    ELSE s \o Repeat(s, n - 1)

\* arguments of sanitizeObjectKey: empty, clean, with characters to
\* replace, and of lengths around the limit
KeyInputs ==
    {"", "valid-key_123", "Az09._-", "a b", "user@domain.com", "a/b\\c", "!!",
     "key with spaces and $pecial ch@rs!",
     Repeat("a", MaxKeyLen - 1), Repeat("a", MaxKeyLen), Repeat("a", MaxKeyLen + 1),
     Repeat("/", MaxKeyLen), Repeat("/", MaxKeyLen + 1)}

\* arguments of CreateTrackedEntityKey: <<externalSystemID, internalEntityID>>
KeyPairs ==
    {<<"", "">>, <<"servicenow_incident", "e1">>, <<"servicenow/sir", "entity@123">>,
     <<"servicenow", "">>, <<"", "entity123">>, <<"a.b", "c.d">>,
     <<Repeat("s", 500), Repeat("e", MaxKeyLen - 501)>>,
     <<Repeat("s", 500), Repeat("e", MaxKeyLen - 500)>>,
     <<Repeat("s", 500), Repeat("#", MaxKeyLen - 501)>>,
     <<Repeat("s", 500), Repeat("#", MaxKeyLen - 500)>>}

\* one evaluation of a key function: its argument and its results are kept
KeyEvaluated(p, name, externalSystemID, internalEntityID, input, result) ==
    /\ CanStart(p)
    /\ handler' = [handler EXCEPT ![p] = name]
    /\ req' = [req EXCEPT ![p] = [EmptyReq EXCEPT !.external_system_id = externalSystemID,
                                                  !.internal_entity_id = internalEntityID]]
    /\ loc' = [loc EXCEPT ![p] = [NoLoc EXCEPT !.input = input, !.key = result.key,
                                               !.err = result.err]]
    /\ pc' = [pc EXCEPT ![p] = "done"]
    /\ pred' = [pred EXCEPT ![p] = Done]
    /\ UNCHANGED <<tracked_entities, dedup_store, writer, clock, resp, calls>>

SanitizeKey(p, input) ==
    KeyEvaluated(p, "sanitizeObjectKey", "", "", input, sanitizeObjectKey(input))

TrackedEntityKey(p, externalSystemID, internalEntityID) ==
    KeyEvaluated(p, "CreateTrackedEntityKey", externalSystemID, internalEntityID,
                 externalSystemID \o "." \o internalEntityID,
                 CreateTrackedEntityKey(externalSystemID, internalEntityID))

NextKey ==
    \/ \E p \in Pair, input \in KeyInputs : SanitizeKey(p, input)
    \/ \E p \in Pair, pair \in KeyPairs : TrackedEntityKey(p, pair[1], pair[2])
SpecKey == Init /\ [][NextKey]_vars

\* ------------------------------------------------------- mapping lookups
\* requests of one run against tracked_entities
MaxRequests == 2
Slots == 1..MaxRequests

EntityIDs == {"e1", "e2"}
\* external_system_id values a caller may send: the two classes, one that
\* differs from the first only in a character the sanitizer replaces, and
\* the empty string
SystemIDs ==
    {ExternalSystemIDServiceNowIncident, ExternalSystemIDServiceNowSIRIncident,
     "servicenow/incident", ""}
ExternalIDs == {"INC0001", "INC0002"}

\* CheckExternalEntityExists without the external-system filter
CheckExternalEntityExists_Unscoped(got, externalSystemID) ==
    IF got.err # ""
    THEN IF Contains(got.err, "status 404")
         THEN [exists |-> FALSE, hasRec |-> FALSE, rec |-> NoRecord, err |-> ""]
         ELSE [exists |-> FALSE, hasRec |-> FALSE, rec |-> NoRecord,
               err |-> "failed to check if external entity exists: " \o got.err]
    ELSE LET u == UnmarshalExternalEntityRecord(got.body)
         IN IF u.err # ""
            THEN [exists |-> TRUE, hasRec |-> FALSE, rec |-> NoRecord,
                  err |-> "failed to unmarshal external entity record: " \o u.err]
            ELSE [exists |-> TRUE, hasRec |-> TRUE, rec |-> u.rec, err |-> ""]

\* CheckExternalEntityExists with an object that does not decode taken for
\* an absent one
CheckExternalEntityExists_DecodeErrorIsMiss(got, externalSystemID) ==
    IF got.err # ""
    THEN IF Contains(got.err, "status 404")
         THEN [exists |-> FALSE, hasRec |-> FALSE, rec |-> NoRecord, err |-> ""]
         ELSE [exists |-> FALSE, hasRec |-> FALSE, rec |-> NoRecord,
               err |-> "failed to check if external entity exists: " \o got.err]
    ELSE LET u == UnmarshalExternalEntityRecord(got.body)
         IN IF u.err # ""
            THEN [exists |-> FALSE, hasRec |-> FALSE, rec |-> NoRecord, err |-> ""]
            ELSE IF externalSystemID # "" /\ u.rec.external_system_id # externalSystemID
            THEN [exists |-> FALSE, hasRec |-> FALSE, rec |-> NoRecord, err |-> ""]
            ELSE [exists |-> TRUE, hasRec |-> TRUE, rec |-> u.rec, err |-> ""]

\* CheckExternalEntityExists after its get: (exists, record, err); hasRec
\* tells a record from a nil pointer
CheckExternalEntityExists(got, externalSystemID) ==
    IF got.err # ""
    THEN IF Contains(got.err, "status 404")
         THEN [exists |-> FALSE, hasRec |-> FALSE, rec |-> NoRecord, err |-> ""]
         ELSE [exists |-> FALSE, hasRec |-> FALSE, rec |-> NoRecord,
               err |-> "failed to check if external entity exists: " \o got.err]
    ELSE LET u == UnmarshalExternalEntityRecord(got.body)
         IN IF u.err # ""
            THEN [exists |-> TRUE, hasRec |-> FALSE, rec |-> NoRecord,
                  err |-> "failed to unmarshal external entity record: " \o u.err]
            ELSE IF externalSystemID # "" /\ u.rec.external_system_id # externalSystemID
            THEN [exists |-> FALSE, hasRec |-> FALSE, rec |-> NoRecord, err |-> ""]
            ELSE [exists |-> TRUE, hasRec |-> TRUE, rec |-> u.rec, err |-> ""]

\* the slot whose put a get of tracked_entities returned (0: none)
ReadFrom(key, got) == IF got.err = "" /\ key \in DOMAIN writer THEN writer[key] ELSE 0

\* how a lookup went, as the handler's locals record it
Observed(found) ==
    IF found.err # "" THEN "error" ELSE IF found.exists THEN "hit" ELSE "miss"

CheckBodies ==
    {[EmptyReq EXCEPT !.internal_entity_id = e, !.external_system_id = sys] :
        e \in EntityIDs, sys \in SystemIDs}

\* CheckResponse with ext_id taken from the wrong field of the record
CheckResponse_InternalID(found) ==
    IF found.err # ""
    THEN ErrResp(StatusInternalServerError, "failed to check if ticket exists: " \o found.err)
    ELSE IF ~found.exists
    THEN Response(StatusOK, [exists |-> FALSE])
    ELSE Response(StatusOK, [exists |-> TRUE,
                             ext_id |-> found.rec.internal_entity_id,
                             ext_system_id |-> found.rec.external_system_id])

\* CheckResponse with the two optional fields always present
CheckResponse_AlwaysFields(found) ==
    IF found.err # ""
    THEN ErrResp(StatusInternalServerError, "failed to check if ticket exists: " \o found.err)
    ELSE Response(StatusOK, [exists |-> found.exists,
                             ext_id |-> found.rec.external_entity_id,
                             ext_system_id |-> found.rec.external_system_id])

\* HandleCheckIfExtEntityExists' answer from the lookup's result
CheckResponse(found) ==
    IF found.err # ""
    THEN ErrResp(StatusInternalServerError, "failed to check if ticket exists: " \o found.err)
    ELSE IF ~found.exists
    THEN Response(StatusOK, [exists |-> FALSE])
    ELSE Response(StatusOK, [exists |-> TRUE,
                             ext_id |-> found.rec.external_entity_id,
                             ext_system_id |-> found.rec.external_system_id])

\* HandleCheckIfExtEntityExists up to the lookup's get
HandleCheckIfExtEntityExists(p, body, clientErr) ==
    /\ CanStart(p)
    /\ IF clientErr # ""
       THEN Begin(p, "check", body, ClientFailed, "done", ClientErrResp(clientErr))
       ELSE LET k == CreateTrackedEntityKey(body.external_system_id, body.internal_entity_id)
            IN IF k.err # ""
               THEN Begin(p, "check", body, ClientBuilt, "done",
                          ErrResp(StatusInternalServerError,
                                  "failed to check if ticket exists: failed to create tracked entity key: "
                                      \o k.err))
               ELSE Begin(p, "check", body, [ClientBuilt EXCEPT !.key = k.key], "get", NoResponse)

\* HandleCheckIfExtEntityExists: the get and the answer
CheckGet(p, fault) ==
    /\ handler[p] = "check" /\ pc[p] = "get"
    /\ LET got == GetObject(tracked_entities, loc[p].key, fault)
           found == CheckExternalEntityExists(got, req[p].external_system_id)
       IN Step(p, "get",
               [loc[p] EXCEPT !.get = Observed(found),
                              !.readFrom = ReadFrom(loc[p].key, got),
                              !.extRecord = UnmarshalExternalEntityRecord(got.body).rec],
               "done", CheckResponse(found))
    /\ UNCHANGED <<tracked_entities, dedup_store, writer>>

\* ------------------------------------------------------- mapping creation
MappingBodies ==
    {[EmptyReq EXCEPT !.internal_entity_id = e, !.external_entity_id = x,
                      !.external_system_id = sys] :
        e \in EntityIDs, x \in ExternalIDs, sys \in SystemIDs}

\* HandleCreateEntityMapping up to CreateOrUpdateExternalEntityMapping's put
HandleCreateEntityMapping(p, body, clientErr) ==
    /\ CanStart(p)
    /\ IF clientErr # ""
       THEN Begin(p, "mapping", body, ClientFailed, "done", ClientErrResp(clientErr))
       ELSE LET entityRecord == ExternalEntityRecord(body.internal_entity_id,
                                                     body.external_entity_id,
                                                     body.external_system_id)
                k == CreateTrackedEntityKey(entityRecord.external_system_id,
                                            entityRecord.internal_entity_id)
            IN IF k.err # ""
               THEN Begin(p, "mapping", body, ClientBuilt, "done",
                          ErrResp(StatusInternalServerError,
                                  "error creating tracked entity key: " \o k.err))
               ELSE Begin(p, "mapping", body,
                          [ClientBuilt EXCEPT !.key = k.key, !.entityRecord = entityRecord],
                          "put", NoResponse)

\* MappingStored with the put skipped
MappingStored_NoStore(p, fault, answer) ==
    /\ Step(p, "put", [loc[p] EXCEPT !.put = IF fault THEN "error" ELSE "ok"], "done",
            IF fault
            THEN ErrResp(StatusInternalServerError,
                         "error storing entity mapping in collection: " \o PutFault)
            ELSE answer)
    /\ UNCHANGED <<tracked_entities, writer>>

\* MappingStored as a create-if-absent: a key that holds an object is left
\* as it is
MappingStored_IfAbsent(p, fault, answer) ==
    IF fault
    THEN /\ Step(p, "put", [loc[p] EXCEPT !.put = "error"], "done",
                 ErrResp(StatusInternalServerError,
                         "error storing entity mapping in collection: " \o PutFault))
         /\ UNCHANGED <<tracked_entities, writer>>
    ELSE /\ Step(p, "put", [loc[p] EXCEPT !.put = "ok"], "done", answer)
         /\ IF loc[p].key \in DOMAIN tracked_entities
            THEN UNCHANGED <<tracked_entities, writer>>
            ELSE /\ tracked_entities' = PutObject(tracked_entities, loc[p].key,
                                                  JsonEncode(loc[p].entityRecord))
                 /\ writer' = PutObject(writer, loc[p].key, p)

\* MappingStored with a failed put that stored the record all the same
MappingStored_StoredOnError(p, fault, answer) ==
    /\ Step(p, "put", [loc[p] EXCEPT !.put = IF fault THEN "error" ELSE "ok"], "done",
            IF fault
            THEN ErrResp(StatusInternalServerError,
                         "error storing entity mapping in collection: " \o PutFault)
            ELSE answer)
    /\ tracked_entities' = PutObject(tracked_entities, loc[p].key,
                                     JsonEncode(loc[p].entityRecord))
    /\ writer' = PutObject(writer, loc[p].key, p)

\* CreateOrUpdateExternalEntityMapping's put, and the answer of the handler
\* that called it
MappingStored(p, fault, answer) ==
    IF fault
    THEN /\ Step(p, "put", [loc[p] EXCEPT !.put = "error"], "done",
                 ErrResp(StatusInternalServerError,
                         "error storing entity mapping in collection: " \o PutFault))
         /\ UNCHANGED <<tracked_entities, writer>>
    ELSE /\ Step(p, "put", [loc[p] EXCEPT !.put = "ok"], "done", answer)
         /\ tracked_entities' = PutObject(tracked_entities, loc[p].key,
                                          JsonEncode(loc[p].entityRecord))
         /\ writer' = PutObject(writer, loc[p].key, p)

\* HandleCreateEntityMapping: the put and the answer
MappingPut(p, fault) ==
    /\ handler[p] = "mapping" /\ pc[p] = "put"
    /\ MappingStored(p, fault, Response(StatusCreated, loc[p].entityRecord))
    /\ UNCHANGED dedup_store

\* ------------------------------------------------------ incident creation
\* Binding with the SIR handler bound to the standard class
Binding_OneClass(h) ==
    [operationID |-> IF h = "incident" THEN pluginOpIDServiceNowCreateIncident
                     ELSE pluginOpIDServiceNowCreateSIRIncident,
     ticketType |-> IF h = "incident" THEN "incident" ELSE "sn_si_incident",
     externalSystemID |-> ExternalSystemIDServiceNowIncident]

\* Binding with create-sir-incident invoking the operation of
\* create-incident
Binding_SameOperation(h) ==
    [operationID |-> pluginOpIDServiceNowCreateIncident,
     ticketType |-> IF h = "incident" THEN "incident" ELSE "sn_si_incident",
     externalSystemID |-> IF h = "incident" THEN ExternalSystemIDServiceNowIncident
                          ELSE ExternalSystemIDServiceNowSIRIncident]

\* HandleCreateIncident, HandleCreateSIRIncident: what each binds
Binding(h) ==
    IF h = "incident"
    THEN [operationID |-> pluginOpIDServiceNowCreateIncident,
          ticketType |-> "incident",
          externalSystemID |-> ExternalSystemIDServiceNowIncident]
    ELSE [operationID |-> pluginOpIDServiceNowCreateSIRIncident,
          ticketType |-> "sn_si_incident",
          externalSystemID |-> ExternalSystemIDServiceNowSIRIncident]

IncidentHandlers == {"incident", "sir"}

IncidentBodies ==
    {[EmptyReq EXCEPT !.entity_id = e, !.trace_id = "trace-1"] : e \in EntityIDs}

\* sys_id values the ITSM system hands out
TicketIDs == {"SYS1", "SYS2"}

ResultOf(sysID) == JObj([sys_id |-> JStr(sysID), sys_class_name |-> JStr("incident")])
ErrorObject == JObj([message |-> JStr("Validation Error"), code |-> JStr("VAL1001")])

\* the response bodies the ITSM system may send
ResponseBodies ==
    {JObj([result |-> ResultOf(t)]) : t \in TicketIDs \cup {""}}
    \cup {JObj([result |-> ResultOf("SYS1"), error |-> JStr("Access denied")]),
          JObj([result |-> ResultOf("SYS1"), error |-> ErrorObject]),
          JObj([error |-> JStr("Access denied")]),
          JObj(<<>>),
          JObj([result |-> JStr("created")]),
          JObj([result |-> JObj([sys_class_name |-> JStr("incident")])]),
          JObj([result |-> JObj([sys_id |-> JNum("42"), sys_class_name |-> JStr("incident")])]),
          JObj([result |-> JObj([sys_id |-> JStr("SYS1")])]),
          JStr("Bad Gateway")}

\* the outcomes of ExecuteCommand
ExecResps ==
    {ExecResp("[POST /plugins/entities/execute/v1][401] unauthorized", TRUE, TRUE, <<>>),
     ExecResp("", TRUE, TRUE, <<>>),
     ExecResp("", FALSE, TRUE, <<>>),
     ExecResp("", FALSE, FALSE, <<>>),
     ExecResp("", FALSE, FALSE, <<NilResource>>)}
    \cup {Answer(b) : b \in ResponseBodies}

\* ReadResponseBody with the error field looked at only when no sys_id was
\* read, and ReadResponseBody with a sys_id of any JSON type accepted
ReadResponseBody_ResultFirst(body) ==
    LET isResultMap == body.t = "object" /\ "result" \in DOMAIN body.o
                                         /\ body.o["result"].t = "object"
        StringAt(name) ==
            IF isResultMap /\ name \in DOMAIN body.o["result"].o
                           /\ body.o["result"].o[name].t = "string"
            THEN body.o["result"].o[name].s
            ELSE ""
        hasError == body.t = "object" /\ "error" \in DOMAIN body.o /\ StringAt("sys_id") = ""
    IN [panic |-> IF body.t # "object" THEN "interface conversion" ELSE "",
        snowSysID |-> StringAt("sys_id"),
        snowSysClassName |-> StringAt("sys_class_name"),
        hasError |-> hasError,
        errorText |-> IF ~hasError THEN ""
                      ELSE IF body.o["error"].t = "string" THEN body.o["error"].s
                      ELSE JsonMarshal(body.o["error"])]

ReadResponseBody_AnySysID(body) ==
    LET isResultMap == body.t = "object" /\ "result" \in DOMAIN body.o
                                         /\ body.o["result"].t = "object"
        TextAt(name) ==
            IF isResultMap /\ name \in DOMAIN body.o["result"].o
            THEN body.o["result"].o[name].s
            ELSE ""
        hasError == body.t = "object" /\ "error" \in DOMAIN body.o
    IN [panic |-> IF body.t # "object" THEN "interface conversion" ELSE "",
        snowSysID |-> TextAt("sys_id"),
        snowSysClassName |-> TextAt("sys_class_name"),
        hasError |-> hasError,
        errorText |-> IF ~hasError THEN ""
                      ELSE IF body.o["error"].t = "string" THEN body.o["error"].s
                      ELSE JsonMarshal(body.o["error"])]

\* createIncident's reading of a response body: the runtime fault of a
\* failed type assertion, or (snowSysID, snowSysClassName, error field)
ReadResponseBody(body) ==
    IF body.t # "object"
    THEN [panic |-> "interface conversion: interface {} is " \o body.t
                      \o ", not map[string]interface {}",
          snowSysID |-> "", snowSysClassName |-> "", hasError |-> FALSE, errorText |-> ""]
    ELSE LET isResultMap == "result" \in DOMAIN body.o /\ body.o["result"].t = "object"
             StringAt(name) ==
                 IF isResultMap /\ name \in DOMAIN body.o["result"].o
                                /\ body.o["result"].o[name].t = "string"
                 THEN body.o["result"].o[name].s
                 ELSE ""
             hasError == "error" \in DOMAIN body.o
         IN [panic |-> "",
             snowSysID |-> StringAt("sys_id"),
             snowSysClassName |-> StringAt("sys_class_name"),
             hasError |-> hasError,
             errorText |-> IF ~hasError THEN ""
                           ELSE IF body.o["error"].t = "string" THEN body.o["error"].s
                           ELSE JsonMarshal(body.o["error"])]

\* PanicResponse of a handler that is not wrapped: the fault escapes and
\* the handler produces no response
PanicResponse_Escapes(rec, traceID) == NoResponse

\* WithPanicRecoveryWorkflow: the answer for a recovered fault
PanicResponse(rec, traceID) ==
    ErrResp(StatusInternalServerError,
            "Internal fn error: " \o rec \o " (trace_id: '" \o traceID \o "')")

\* CommandFailed answering with the gateway's status instead of 500
CommandFailed_BadGateway(what) == ErrResp(502, "failed to execute command" \o what)

\* CommandFailed with one message for every failure
CommandFailed_NoDetail(what) ==
    ErrResp(StatusInternalServerError, "failed to execute command")

\* createIncident's answer when the ITSM command did not succeed
CommandFailed(what) == ErrResp(StatusInternalServerError, "failed to execute command" \o what)

\* the optional fields of CreateIncidentRequest that the payload names
OptionalFields ==
    {"assignment_group", "category", "description", "impact", "severity", "state",
     "urgency", "work_notes"}

\* buildRequestPayload with a named field kept when custom_fields holds
\* its key
buildRequestPayload_KeepNamed(body) ==
    LET named == {"short_description"} \cup {f \in OptionalFields : body[f] # ""}
        requestPayload == [k \in named |-> JStr(body[k])]
        customFields == JsonUnmarshalMap(body.custom_fields)
    IN IF body.custom_fields # "" /\ customFields.err = ""
       THEN [k \in named \cup DOMAIN customFields.fields |->
                 IF k \in named THEN requestPayload[k] ELSE customFields.fields[k]]
       ELSE requestPayload

\* The JSON object sent to the ITSM system.
buildRequestPayload(body) ==
    LET named == {"short_description"} \cup {f \in OptionalFields : body[f] # ""}
        requestPayload == [k \in named |-> JStr(body[k])]
        customFields == JsonUnmarshalMap(body.custom_fields)
    IN IF body.custom_fields # "" /\ customFields.err = ""
       THEN [k \in named \cup DOMAIN customFields.fields |->
                 IF k \in DOMAIN customFields.fields THEN customFields.fields[k]
                 ELSE requestPayload[k]]
       ELSE requestPayload

CreateIncidentResponse(exists, ticketID, ticketType) ==
    [exists |-> exists, ticket_id |-> ticketID, ticket_type |-> ticketType]

\* createIncident up to the lookup's get
createIncident(p, h, body, clientErr) ==
    /\ CanStart(p)
    /\ IF clientErr # ""
       THEN Begin(p, h, body, ClientFailed, "done", ClientErrResp(clientErr))
       ELSE LET k == CreateTrackedEntityKey(Binding(h).externalSystemID, body.entity_id)
            IN IF k.err # ""
               THEN Begin(p, h, body, ClientBuilt, "done",
                          ErrResp(StatusInternalServerError,
                                  "failed to check if ticket exists: failed to create tracked entity key: "
                                      \o k.err))
               ELSE Begin(p, h, body, [ClientBuilt EXCEPT !.key = k.key], "get", NoResponse)

\* IncidentGet with the early return on an existing mapping left out
IncidentGet_NoEarlyReturn(p, fault) ==
    /\ handler[p] \in IncidentHandlers /\ pc[p] = "get"
    /\ LET got == GetObject(tracked_entities, loc[p].key, fault)
           found == CheckExternalEntityExists(got, Binding(handler[p]).externalSystemID)
           l == [loc[p] EXCEPT !.get = Observed(found),
                               !.readFrom = ReadFrom(loc[p].key, got),
                               !.extRecord = UnmarshalExternalEntityRecord(got.body).rec]
       IN IF found.err # ""
          THEN Step(p, "get", l, "done",
                    ErrResp(StatusInternalServerError,
                            "failed to check if ticket exists: " \o found.err))
          ELSE Step(p, "get",
                    [l EXCEPT !.requestPayload = buildRequestPayload(req[p]),
                              !.operationID = Binding(handler[p]).operationID],
                    "rpc", NoResponse)
    /\ UNCHANGED <<tracked_entities, dedup_store, writer>>

\* IncidentGet with the early return answering 201
IncidentGet_WarmCreated(p, fault) ==
    /\ handler[p] \in IncidentHandlers /\ pc[p] = "get"
    /\ LET got == GetObject(tracked_entities, loc[p].key, fault)
           found == CheckExternalEntityExists(got, Binding(handler[p]).externalSystemID)
           l == [loc[p] EXCEPT !.get = Observed(found),
                               !.readFrom = ReadFrom(loc[p].key, got),
                               !.extRecord = UnmarshalExternalEntityRecord(got.body).rec]
       IN IF found.err # ""
          THEN Step(p, "get", l, "done",
                    ErrResp(StatusInternalServerError,
                            "failed to check if ticket exists: " \o found.err))
          ELSE IF found.exists
          THEN Step(p, "get", l, "done",
                    Response(StatusCreated,
                             CreateIncidentResponse(TRUE, found.rec.external_entity_id,
                                                    Binding(handler[p]).ticketType)))
          ELSE Step(p, "get",
                    [l EXCEPT !.requestPayload = buildRequestPayload(req[p]),
                              !.operationID = Binding(handler[p]).operationID],
                    "rpc", NoResponse)
    /\ UNCHANGED <<tracked_entities, dedup_store, writer>>

\* createIncident: the lookup's get, the early return on a mapping, and
\* the building of the payload
IncidentGet(p, fault) ==
    /\ handler[p] \in IncidentHandlers /\ pc[p] = "get"
    /\ LET got == GetObject(tracked_entities, loc[p].key, fault)
           found == CheckExternalEntityExists(got, Binding(handler[p]).externalSystemID)
           l == [loc[p] EXCEPT !.get = Observed(found),
                               !.readFrom = ReadFrom(loc[p].key, got),
                               !.extRecord = UnmarshalExternalEntityRecord(got.body).rec]
       IN IF found.err # ""
          THEN Step(p, "get", l, "done",
                    ErrResp(StatusInternalServerError,
                            "failed to check if ticket exists: " \o found.err))
          ELSE IF found.exists
          THEN Step(p, "get", l, "done",
                    Response(StatusOK,
                             CreateIncidentResponse(TRUE, found.rec.external_entity_id,
                                                    Binding(handler[p]).ticketType)))
          ELSE Step(p, "get",
                    [l EXCEPT !.requestPayload = buildRequestPayload(req[p]),
                              !.operationID = Binding(handler[p]).operationID],
                    "rpc", NoResponse)
    /\ UNCHANGED <<tracked_entities, dedup_store, writer>>

\* createIncident: ExecuteCommand, the shape checks, the reading of the
\* body, and the derivation of the key of the mapping to store
IncidentRpc(p, execResp) ==
    /\ handler[p] \in IncidentHandlers /\ pc[p] = "rpc"
    /\ LET l == [loc[p] EXCEPT !.rpc = "called", !.execResp = execResp]
           fail(r) == Step(p, "rpc", l, "done", r)
       IN IF execResp.err # "" THEN fail(CommandFailed(": " \o execResp.err))
          ELSE IF execResp.isNil THEN fail(CommandFailed(" - nil response"))
          ELSE IF execResp.payloadNil THEN fail(CommandFailed(" - empty response"))
          ELSE IF Len(execResp.resources) = 0
          THEN fail(CommandFailed(" - empty resources in response payload"))
          ELSE IF execResp.resources[1].isNil
          THEN fail(PanicResponse("runtime error: invalid memory address or nil pointer dereference",
                                  req[p].trace_id))
          ELSE LET read == ReadResponseBody(execResp.resources[1].ResponseBody)
                   entityRecord == ExternalEntityRecord(req[p].entity_id, read.snowSysID,
                                                        Binding(handler[p]).externalSystemID)
                   k == CreateTrackedEntityKey(entityRecord.external_system_id,
                                               entityRecord.internal_entity_id)
                   l2 == [l EXCEPT !.snowSysID = read.snowSysID,
                                   !.snowSysClassName = read.snowSysClassName]
               IN IF read.panic # "" THEN fail(PanicResponse(read.panic, req[p].trace_id))
                  ELSE IF read.hasError
                  THEN fail(CommandFailed(": ServiceNow Error: " \o read.errorText))
                  ELSE IF read.snowSysID = ""
                  THEN Step(p, "rpc", l2, "done",
                            Response(StatusCreated,
                                     CreateIncidentResponse(FALSE, read.snowSysID,
                                                            read.snowSysClassName)))
                  ELSE IF k.err # ""
                  THEN Step(p, "rpc", l2, "done",
                            ErrResp(StatusInternalServerError,
                                    "error creating tracked entity key: " \o k.err))
                  ELSE Step(p, "rpc", [l2 EXCEPT !.key = k.key, !.entityRecord = entityRecord],
                            "put", NoResponse)
    /\ UNCHANGED <<tracked_entities, dedup_store, writer>>

\* IncidentPut as a conditional put: a mapping that appeared since the
\* lookup is kept and reported instead of being overwritten
IncidentPut_IfAbsent(p, fault) ==
    /\ handler[p] \in IncidentHandlers /\ pc[p] = "put"
    /\ IF ~fault /\ loc[p].key \in DOMAIN tracked_entities
       THEN /\ Step(p, "put", [loc[p] EXCEPT !.put = "ok"], "done",
                    Response(StatusOK,
                             CreateIncidentResponse(
                                 TRUE,
                                 UnmarshalExternalEntityRecord(
                                     tracked_entities[loc[p].key]).rec.external_entity_id,
                                 Binding(handler[p]).ticketType)))
            /\ UNCHANGED <<tracked_entities, writer>>
       ELSE MappingStored(p, fault,
                          Response(StatusCreated,
                                   CreateIncidentResponse(FALSE, loc[p].snowSysID,
                                                          loc[p].snowSysClassName)))
    /\ UNCHANGED dedup_store

\* IncidentPut with a failed put tried again
IncidentPut_Retries(p, fault) ==
    /\ handler[p] \in IncidentHandlers /\ pc[p] = "put"
    /\ IF fault
       THEN /\ Step(p, "put", [loc[p] EXCEPT !.put = "error"], "put", NoResponse)
            /\ UNCHANGED <<tracked_entities, writer>>
       ELSE MappingStored(p, fault,
                          Response(StatusCreated,
                                   CreateIncidentResponse(FALSE, loc[p].snowSysID,
                                                          loc[p].snowSysClassName)))
    /\ UNCHANGED dedup_store

\* createIncident: the put of the mapping and the answer
IncidentPut(p, fault) ==
    /\ handler[p] \in IncidentHandlers /\ pc[p] = "put"
    /\ MappingStored(p, fault,
                     Response(StatusCreated,
                              CreateIncidentResponse(FALSE, loc[p].snowSysID,
                                                     loc[p].snowSysClassName)))
    /\ UNCHANGED dedup_store

\* --------------------------------------------------------- specifications
DoHandleCheckIfExtEntityExists ==
    \E p \in Slots, b \in CheckBodies, e \in ClientErrs : HandleCheckIfExtEntityExists(p, b, e)
DoCheckGet == \E p \in Slots, f \in Faults : CheckGet(p, f)
DoHandleCreateEntityMapping ==
    \E p \in Slots, b \in MappingBodies, e \in ClientErrs : HandleCreateEntityMapping(p, b, e)
DoMappingPut == \E p \in Slots, f \in Faults : MappingPut(p, f)
DoCreateIncident ==
    \E p \in Slots, h \in IncidentHandlers, b \in IncidentBodies, e \in ClientErrs :
        createIncident(p, h, b, e)
DoIncidentGet == \E p \in Slots, f \in Faults : IncidentGet(p, f)
DoIncidentRpc == \E p \in Slots, x \in ExecResps : IncidentRpc(p, x)
DoIncidentPut == \E p \in Slots, f \in Faults : IncidentPut(p, f)

\* The four handlers of tracked_entities, under any interleaving.
Next ==
    \/ DoHandleCheckIfExtEntityExists \/ DoCheckGet
    \/ DoHandleCreateEntityMapping \/ DoMappingPut
    \/ DoCreateIncident \/ DoIncidentGet \/ DoIncidentRpc \/ DoIncidentPut
Spec == Init /\ [][Next]_vars

\* The four handlers against a tracked_entities that is empty or already
\* holds, at the key of (servicenow_incident, e1), an object that is no
\* JSON (the tests hand the lookup such an object).
TrackedAtStart ==
    {<<>>,
     PutObject(<<>>, CreateTrackedEntityKey(ExternalSystemIDServiceNowIncident, "e1").key,
               InvalidObject)}
InitTracked ==
    /\ tracked_entities \in TrackedAtStart
    /\ dedup_store = <<>>
    /\ clock = ClockStart
    /\ pc = [p \in Procs |-> "idle"]
    /\ handler = [p \in Procs |-> "none"]
    /\ req = [p \in Procs |-> EmptyReq]
    /\ loc = [p \in Procs |-> NoLoc]
    /\ resp = [p \in Procs |-> NoResponse]
    /\ calls = [p \in Procs |-> <<>>]
    /\ pred = [p \in Procs |-> {}]
    /\ writer = <<>>
SpecTracked == InitTracked /\ [][Next]_vars

\* The two incident handlers alone, for one entity, with an ITSM system
\* that hands out a ticket or refuses the call, over every request slot.
RaceResps ==
    {Answer(JObj([result |-> ResultOf(t)])) : t \in TicketIDs}
    \cup {ExecResp("[POST /plugins/entities/execute/v1][401] unauthorized", TRUE, TRUE, <<>>)}
NextRace ==
    \/ \E p \in Procs, h \in IncidentHandlers :
           createIncident(p, h, [EmptyReq EXCEPT !.entity_id = "e1", !.trace_id = "trace-1"], "")
    \/ \E p \in Procs, f \in Faults : IncidentGet(p, f)
    \/ \E p \in Procs, x \in RaceResps : IncidentRpc(p, x)
    \/ \E p \in Procs, f \in Faults : IncidentPut(p, f)
SpecRace == Init /\ [][NextRace]_vars

\* The five handlers together, each request in one of the slots, at a
\* fixed instant.
NextAll ==
    \/ Next
    \/ \E p \in Slots, b \in ThrottleBodies, e \in ClientErrs : HandleThrottle(p, b, e)
    \/ \E p \in Slots, f \in Faults : ThrottleGet(p, f)
    \/ \E p \in Slots, f \in Faults : ThrottlePut(p, f)
SpecAll == Init /\ [][NextAll]_vars

\* ------------------------------------------------------ the payload alone
\* custom_fields texts a caller may send
CustomFieldTexts ==
    {"",
     "{\"u_custom_field1\": \"value1\", \"u_custom_field2\": 42, \"u_custom_field3\": true}",
     "{\"short_description\":\"override\",\"category\":\"network\"}",
     "{\"u_nested\":{\"k\":null},\"u_nested\":\"last\"}",
     "{}",
     "null",
     "42",
     "\"text\"",
     "not json",
     "{\"u_custom_field1\": \"value1\"",
     "{\"category\":\"network\"} x"}

\* the choices of optional fields a body gives: none, all, one, all but one
FieldChoices ==
    {{}, OptionalFields}
    \cup {{f} : f \in OptionalFields}
    \cup {OptionalFields \ {f} : f \in OptionalFields}

\* request bodies over these choices
PayloadBodies ==
    {[k \in DOMAIN EmptyReq |->
          IF k = "entity_id" THEN "e1"
          ELSE IF k = "trace_id" THEN "trace-1"
          ELSE IF k = "short_description" THEN s
          ELSE IF k = "custom_fields" THEN c
          ELSE IF k \in set THEN "value of " \o k
          ELSE ""] :
        s \in {"", "Disk full"}, set \in FieldChoices, c \in CustomFieldTexts}

\* One createIncident request with any body, against an empty collection.
NextPayload ==
    \/ \E h \in IncidentHandlers, b \in PayloadBodies : createIncident(1, h, b, "")
    \/ \E f \in Faults : IncidentGet(1, f)
    \/ \E x \in ExecResps : IncidentRpc(1, x)
    \/ \E f \in Faults : IncidentPut(1, f)
SpecPayload == Init /\ [][NextPayload]_vars

\* ------------------------------------------------------ claims: vocabulary
Finished(p, h) == handler[p] = h /\ pc[p] = "done"

\* q started after p had been answered
Before(p, q) == p \in pred[q]

\* q's execution overlaps no other request's
NonOverlapping(q) ==
    \A r \in Procs \ {q} : pc[r] = "idle" \/ Before(r, q) \/ Before(q, r)

\* throttle requests with the same four fields, served under one bucket label
SameDedupRequest(p, q) ==
    /\ req[p].internal_entity_id = req[q].internal_entity_id
    /\ req[p].dedup_obj_type = req[q].dedup_obj_type
    /\ req[p].dedup_obj_id = req[q].dedup_obj_id
    /\ req[p].time_bucket = req[q].time_bucket
    /\ loc[p].bucket = loc[q].bucket

\* the request got its client and none of its storage calls failed
StorageCallsSucceeded(p) ==
    loc[p].get \in {"hit", "miss"} /\ loc[p].put # "error"

Allowed(p) == resp[p] = Response(StatusOK, [allowed |-> TRUE])
Denied(p) == resp[p] = Response(StatusOK, [allowed |-> FALSE])

\* ------------------------------------------------------------------ C1
\* C1: a throttle request that finds no record at its dedup key and whose
\* storage calls succeed is answered 200 {allowed:true} and leaves a record
\* at that key; every later request with the same four fields, served under
\* the same bucket label, overlapping no other request, and whose storage
\* calls succeed, is answered 200 {allowed:false}.
C1_SequentialThrottle ==
    \A p \in Procs :
        (Finished(p, "throttle") /\ loc[p].get = "miss" /\ loc[p].put = "ok")
        => /\ Allowed(p)
           /\ loc[p].key \in DOMAIN dedup_store
           /\ \A q \in Procs \ {p} :
                 (/\ Finished(q, "throttle")
                  /\ Before(p, q)
                  /\ SameDedupRequest(p, q)
                  /\ NonOverlapping(q)
                  /\ StorageCallsSucceeded(q))
                 => Denied(q)

C1_Witness ==
    \E p, q \in Procs :
        /\ Finished(p, "throttle") /\ loc[p].get = "miss" /\ loc[p].put = "ok"
        /\ Allowed(p)
        /\ Finished(q, "throttle") /\ Before(p, q) /\ SameDedupRequest(p, q)
        /\ NonOverlapping(q) /\ StorageCallsSucceeded(q)
        /\ Denied(q)

\* ------------------------------------------------------------------ C2
\* C2 as stated: among the throttle requests with the same four fields in
\* one bucket window, whatever their interleaving, at most one is answered
\* allowed=true.
C2_AtMostOneAllowed ==
    \A p, q \in Procs :
        (/\ p # q
         /\ Finished(p, "throttle") /\ Finished(q, "throttle")
         /\ SameDedupRequest(p, q)
         /\ Allowed(p))
        => ~Allowed(q)

\* C2 amended: two such requests are both answered allowed=true only if
\* they overlapped; of requests that follow one another at most one is
\* allowed.
C2_AtMostOneAllowedInSequence ==
    \A p, q \in Procs :
        (/\ p # q
         /\ Finished(p, "throttle") /\ Finished(q, "throttle")
         /\ SameDedupRequest(p, q)
         /\ Allowed(p) /\ Allowed(q))
        => (~Before(p, q) /\ ~Before(q, p))

C2_Witness ==
    \E p, q, r \in Procs :
        /\ Finished(p, "throttle") /\ Finished(q, "throttle") /\ Finished(r, "throttle")
        /\ SameDedupRequest(p, q) /\ SameDedupRequest(p, r)
        /\ Allowed(p) /\ Allowed(q) /\ ~Before(p, q) /\ ~Before(q, p)
        /\ Before(p, r) /\ Before(q, r) /\ Denied(r)

\* ------------------------------------------------------------------ C3
Stored(key) == UnmarshalExternalEntityRecord(tracked_entities[key]).rec

\* C3 as stated: for every (external_system_id, internal_entity_id) pair,
\* the object held at the pair's key of tracked_entities, if any, is a
\* record whose external_system_id is the pair's.
C3_AtMostOneLiveMapping ==
    \A sys \in SystemIDs, e \in EntityIDs :
        LET k == CreateTrackedEntityKey(sys, e)
        IN (k.err = "" /\ k.key \in DOMAIN tracked_entities)
           => Stored(k.key).external_system_id = sys

\* ------------------------------------------------------------------ C4
\* the lookup as both callers run it on the current store
Lookup(e, sys, fault) ==
    CheckExternalEntityExists(
        GetObject(tracked_entities, CreateTrackedEntityKey(sys, e).key, fault), sys)

\* C4: on every store content and for every (sys, eid) with sys non-empty,
\* the lookup returns (true, r) only with r.external_system_id = sys; over
\* a stored record of another external_system_id it returns (false, none)
\* without error, and check-external-entity answers 200 {exists:false}.
C4_LookupScoping ==
    /\ \A sys \in SystemIDs \ {""}, e \in EntityIDs, fault \in Faults :
          LET k == CreateTrackedEntityKey(sys, e).key
              found == Lookup(e, sys, fault)
          IN /\ (found.exists /\ found.err = "")
                    => (found.hasRec /\ found.rec.external_system_id = sys)
             /\ (~fault /\ k \in DOMAIN tracked_entities
                        /\ Stored(k).external_system_id # sys)
                    => found = [exists |-> FALSE, hasRec |-> FALSE,
                                rec |-> NoRecord, err |-> ""]
    /\ \A p \in Procs :
          (Finished(p, "check") /\ req[p].external_system_id # "")
          => /\ (HasField(resp[p], "exists") /\ resp[p].body.exists)
                    => resp[p].body.ext_system_id = req[p].external_system_id
             /\ (loc[p].readFrom # 0
                     /\ loc[p].extRecord.external_system_id # req[p].external_system_id)
                    => resp[p] = Response(StatusOK, [exists |-> FALSE])

C4_Witness ==
    \E p \in Procs :
        /\ Finished(p, "check") /\ req[p].external_system_id # ""
        /\ loc[p].readFrom # 0
        /\ loc[p].extRecord.external_system_id # req[p].external_system_id
        /\ resp[p] = Response(StatusOK, [exists |-> FALSE])

\* ------------------------------------------------------------------ C5
IsIncident(p) == handler[p] \in IncidentHandlers /\ pc[p] = "done"

\* a check-external-entity request q for the entity and the bound external
\* system of the create-incident request p, started after p was answered
\* and whose lookup did not fail
ChecksAfter(p, q) ==
    /\ Finished(q, "check") /\ Before(p, q)
    /\ req[q].internal_entity_id = req[p].entity_id
    /\ req[q].external_system_id = Binding(handler[p]).externalSystemID
    /\ loc[q].get \in {"hit", "miss"}

Confirms(q, ticketID) ==
    /\ resp[q].code = StatusOK
    /\ HasField(resp[q], "ext_id")
    /\ resp[q].body.exists
    /\ resp[q].body.ext_id = ticketID

\* C5 as stated: after a create-incident answered 201 with ticket_id T, a
\* subsequent check-external-entity for the same entity and the bound
\* external system answers {exists:true, ext_id:T}.
C5_CreatedThenFound ==
    \A p, q \in Procs :
        (IsIncident(p) /\ resp[p].code = StatusCreated /\ ChecksAfter(p, q))
        => Confirms(q, resp[p].body.ticket_id)

\* C5 amended: ... answered 201 with a non-empty ticket_id T, a subsequent
\* check-external-entity whose get returns the object that request stored
\* (no later write to the key) answers {exists:true, ext_id:T}.
C5_CreatedWithTicketThenFound ==
    \A p, q \in Procs :
        (/\ IsIncident(p) /\ resp[p].code = StatusCreated
         /\ resp[p].body.ticket_id # ""
         /\ ChecksAfter(p, q)
         /\ loc[q].readFrom = p)
        => Confirms(q, resp[p].body.ticket_id)

C5_Witness ==
    \E p, q \in Procs :
        /\ IsIncident(p) /\ resp[p].code = StatusCreated
        /\ resp[p].body.ticket_id # ""
        /\ ChecksAfter(p, q) /\ loc[q].readFrom = p
        /\ Confirms(q, resp[p].body.ticket_id)

\* ------------------------------------------------------------------ C6
\* C6: a create-incident whose lookup finds a mapping for (bound
\* external_system_id, entity_id) answers 200 {exists:true, ticket_id: the
\* stored external_entity_id, ticket_type: the bound ticket type}; its only
\* outbound call is that get (no ITSM RPC, no put), and the step that
\* answers leaves both collections as they were.
C6_WarmPathState ==
    \A p \in Procs :
        (IsIncident(p) /\ loc[p].get = "hit")
        => /\ resp[p] = Response(StatusOK,
                                 [exists |-> TRUE,
                                  ticket_id |-> loc[p].extRecord.external_entity_id,
                                  ticket_type |-> IF handler[p] = "incident" THEN "incident"
                                                  ELSE "sn_si_incident"])
           /\ loc[p].extRecord.external_system_id =
                  (IF handler[p] = "incident" THEN ExternalSystemIDServiceNowIncident
                   ELSE ExternalSystemIDServiceNowSIRIncident)
           /\ loc[p].extRecord.internal_entity_id = req[p].entity_id
           /\ calls[p] = <<"get">>

C6_WarmPathStep ==
    \A p \in Procs :
        (handler[p] \in IncidentHandlers /\ pc[p] = "get" /\ loc'[p].get = "hit")
        => /\ pc'[p] = "done"
           /\ UNCHANGED <<tracked_entities, dedup_store>>

C6_WarmPath == []C6_WarmPathState /\ [][C6_WarmPathStep]_vars

C6_Witness ==
    \E p \in Procs : IsIncident(p) /\ loc[p].get = "hit" /\ resp[p].code = StatusOK

\* --------------------------------------------- claims: the ITSM answer
\* the response body a create-incident request received, when the RPC
\* handed back a first resource carrying a JSON object
Answered(p) ==
    /\ loc[p].rpc = "called"
    /\ loc[p].execResp.err = ""
    /\ ~loc[p].execResp.isNil /\ ~loc[p].execResp.payloadNil
    /\ Len(loc[p].execResp.resources) > 0
    /\ ~loc[p].execResp.resources[1].isNil
    /\ loc[p].execResp.resources[1].ResponseBody.t = "object"

BodyOf(p) == loc[p].execResp.resources[1].ResponseBody.o

HasErrorField(p) == "error" \in DOMAIN BodyOf(p)

\* the body has a result object whose sys_id is a string
UsableResult(p) ==
    /\ "result" \in DOMAIN BodyOf(p)
    /\ BodyOf(p)["result"].t = "object"
    /\ "sys_id" \in DOMAIN BodyOf(p)["result"].o
    /\ BodyOf(p)["result"].o["sys_id"].t = "string"

SysIDOf(p) == BodyOf(p)["result"].o["sys_id"].s

HasClass(p) ==
    /\ "sys_class_name" \in DOMAIN BodyOf(p)["result"].o
    /\ BodyOf(p)["result"].o["sys_class_name"].t = "string"

ClassOf(p) == BodyOf(p)["result"].o["sys_class_name"].s

BoundSystemID(p) ==
    IF handler[p] = "incident" THEN "servicenow_incident" ELSE "servicenow_sir_incident"

BoundTicketType(p) == IF handler[p] = "incident" THEN "incident" ELSE "sn_si_incident"

\* ------------------------------------------------------------------ C7
\* C7: a create-incident whose lookup finds no mapping, whose RPC answer
\* has no error field and a result with non-empty sys_id S and class C, and
\* whose put succeeds, answers 201 {exists:false, ticket_id:S,
\* ticket_type:C}; after the put the store holds {entity_id, S, bound
\* external_system_id} at tracked_entity_key(bound id, entity_id).
C7_ColdPathState ==
    \A p \in Procs :
        (/\ IsIncident(p) /\ loc[p].get = "miss" /\ Answered(p)
         /\ ~HasErrorField(p) /\ UsableResult(p) /\ SysIDOf(p) # "" /\ HasClass(p)
         /\ loc[p].put = "ok")
        => resp[p] = Response(StatusCreated,
                              [exists |-> FALSE, ticket_id |-> SysIDOf(p),
                               ticket_type |-> ClassOf(p)])

C7_ColdPathStep ==
    \A p \in Procs :
        (handler[p] \in IncidentHandlers /\ pc[p] = "put" /\ loc'[p].put = "ok")
        => LET k == CreateTrackedEntityKey(BoundSystemID(p), req[p].entity_id).key
           IN /\ k \in DOMAIN tracked_entities'
              /\ tracked_entities'[k] =
                     JsonEncode([internal_entity_id |-> req[p].entity_id,
                                 external_entity_id |-> SysIDOf(p),
                                 external_system_id |-> BoundSystemID(p)])

C7_ColdPath == []C7_ColdPathState /\ [][C7_ColdPathStep]_vars

C7_Witness ==
    \E p \in Procs :
        /\ IsIncident(p) /\ handler[p] = "sir" /\ loc[p].get = "miss" /\ Answered(p)
        /\ ~HasErrorField(p) /\ UsableResult(p) /\ SysIDOf(p) # "" /\ HasClass(p)
        /\ loc[p].put = "ok" /\ resp[p].code = StatusCreated
        /\ loc[p].key \in DOMAIN tracked_entities

\* ------------------------------------------------------------------ C8
ServiceNowErrorPrefix == "failed to execute command: ServiceNow Error: "

\* C8: whenever the ITSM response body has an error field, of a string or
\* of any other JSON shape, create-incident answers 500 with a message that
\* starts "failed to execute command: ServiceNow Error: " and issues no
\* put, also when the body carries a result with a non-empty sys_id.
C8_ErrorFieldState ==
    \A p \in Procs :
        (IsIncident(p) /\ Answered(p) /\ HasErrorField(p))
        => /\ resp[p].code = StatusInternalServerError
           /\ IsError(resp[p])
           /\ HasPrefix(Message(resp[p]), ServiceNowErrorPrefix)
           /\ calls[p] = <<"get", "rpc">>

C8_ErrorFieldStep ==
    \A p \in Procs :
        (handler[p] \in IncidentHandlers /\ pc[p] = "rpc" /\ pc'[p] # "rpc"
             /\ Answered(p)' /\ HasErrorField(p)')
        => (pc'[p] = "done" /\ UNCHANGED tracked_entities)

C8_ErrorFieldPrecedence == []C8_ErrorFieldState /\ [][C8_ErrorFieldStep]_vars

C8_Witness ==
    \E p \in Procs :
        /\ IsIncident(p) /\ Answered(p) /\ HasErrorField(p)
        /\ BodyOf(p)["error"].t = "object"
        /\ UsableResult(p) /\ SysIDOf(p) # ""
        /\ resp[p].code = StatusInternalServerError

\* ------------------------------------------------------------------ C9
\* C9: when the ITSM response body has no error field and no usable result
\* (result missing, result not an object, sys_id missing or not a string),
\* create-incident answers with ticket_id "" and issues no put: the request
\* leaves tracked_entities as it was.
C9_NoResultState ==
    \A p \in Procs :
        (IsIncident(p) /\ Answered(p) /\ ~HasErrorField(p) /\ ~UsableResult(p))
        => /\ resp[p].code = StatusCreated
           /\ HasField(resp[p], "ticket_id")
           /\ resp[p].body.ticket_id = ""
           /\ ~resp[p].body.exists
           /\ calls[p] = <<"get", "rpc">>

C9_NoResultStep ==
    \A p \in Procs :
        (handler[p] \in IncidentHandlers /\ pc[p] = "rpc" /\ pc'[p] # "rpc"
             /\ Answered(p)' /\ ~HasErrorField(p)' /\ ~UsableResult(p)')
        => (pc'[p] = "done" /\ UNCHANGED tracked_entities)

C9_NoUsableResult == []C9_NoResultState /\ [][C9_NoResultStep]_vars

C9_Witness ==
    \E p \in Procs :
        /\ IsIncident(p) /\ Answered(p) /\ ~HasErrorField(p)
        /\ "result" \in DOMAIN BodyOf(p) /\ BodyOf(p)["result"].t = "object"
        /\ "sys_id" \in DOMAIN BodyOf(p)["result"].o
        /\ BodyOf(p)["result"].o["sys_id"].t = "number"
        /\ resp[p].code = StatusCreated

\* ----------------------------------------------------------------- C10
Started == {p \in Procs : pc[p] # "idle"}

\* a run of create-incident requests of one handler for one entity, none
\* overlapping another, in which the client is always built, no storage
\* call fails and every RPC hands back a non-empty sys_id and no error
SequentialIncidentRun ==
    /\ \A p, q \in Started :
          handler[p] = handler[q] /\ req[p].entity_id = req[q].entity_id
    /\ \A p \in Started :
          /\ handler[p] \in IncidentHandlers
          /\ NonOverlapping(p)
          /\ loc[p].key # ""
          /\ loc[p].get # "error" /\ loc[p].put # "error"
          /\ loc[p].rpc = "called"
                => (Answered(p) /\ ~HasErrorField(p) /\ UsableResult(p) /\ SysIDOf(p) # "")

\* C10: in such a run the ITSM RPC is invoked exactly once, by the first
\* request, which is answered 201; every later request is answered 200
\* with exists:true and the ticket_id the first one returned.
C10_SequentialIdempotence ==
    SequentialIncidentRun
    => /\ Cardinality({p \in Started : "rpc" \in {calls[p][i] : i \in 1..Len(calls[p])}}) <= 1
       /\ \A p \in Started :
             pc[p] = "done"
             => IF pred[p] = {}
                THEN /\ resp[p].code = StatusCreated
                     /\ calls[p] = <<"get", "rpc", "put">>
                     /\ resp[p].body.ticket_id = SysIDOf(p)
                ELSE \E first \in pred[p] :
                        /\ pred[first] = {}
                        /\ resp[p] = Response(StatusOK,
                                              [exists |-> TRUE,
                                               ticket_id |-> resp[first].body.ticket_id,
                                               ticket_type |-> BoundTicketType(p)])
                        /\ calls[p] = <<"get">>

C10_Witness ==
    /\ SequentialIncidentRun
    /\ \E p, q \in Started :
          /\ pc[p] = "done" /\ pc[q] = "done" /\ pred[p] = {} /\ Before(p, q)
          /\ resp[p].code = StatusCreated /\ resp[q].code = StatusOK
          /\ resp[q].body.ticket_id = resp[p].body.ticket_id

\* ----------------------------------------------------------------- C11
\* two create-incident requests of one handler for one entity that
\* overlapped, both of whose lookups observed no mapping
RacingIncidents(p, q) ==
    /\ p # q
    /\ IsIncident(p) /\ IsIncident(q)
    /\ handler[p] = handler[q] /\ req[p].entity_id = req[q].entity_id
    /\ ~Before(p, q) /\ ~Before(q, p)
    /\ loc[p].get = "miss" /\ loc[q].get = "miss"

CreatedTicket(p) ==
    /\ Answered(p) /\ ~HasErrorField(p) /\ UsableResult(p) /\ SysIDOf(p) # ""
    /\ loc[p].put = "ok"

\* C11: two concurrent create-incident requests for the same entity_id may
\* both observe "no mapping"; each of them then invokes the ITSM RPC, and
\* when both RPCs hand back a ticket and both puts succeed, both requests
\* are answered 201, each with the ticket_id of its own RPC, and the key
\* holds the mapping of one of the two.  Such a run exists from the empty
\* store (the witness), with two different ticket_ids.
C11_DuplicateCreation ==
    \A p, q \in Procs :
        RacingIncidents(p, q)
        => /\ "rpc" \in {calls[p][i] : i \in 1..Len(calls[p])}
           /\ "rpc" \in {calls[q][i] : i \in 1..Len(calls[q])}
           /\ (CreatedTicket(p) /\ CreatedTicket(q))
              => /\ resp[p].code = StatusCreated /\ resp[q].code = StatusCreated
                 /\ resp[p].body.ticket_id = SysIDOf(p)
                 /\ resp[q].body.ticket_id = SysIDOf(q)
                 /\ loc[p].key = loc[q].key
                 /\ loc[p].key \in DOMAIN tracked_entities
                 /\ Stored(loc[p].key).external_entity_id \in {SysIDOf(p), SysIDOf(q)}

C11_Witness ==
    \E p, q \in Procs :
        /\ RacingIncidents(p, q)
        /\ pred[p] = {} /\ pred[q] = {}
        /\ loc[p].readFrom = 0 /\ loc[q].readFrom = 0
        /\ CreatedTicket(p) /\ CreatedTicket(q)
        /\ calls[p] = <<"get", "rpc", "put">> /\ calls[q] = <<"get", "rpc", "put">>
        /\ resp[p].code = StatusCreated /\ resp[q].code = StatusCreated
        /\ resp[p].body.ticket_id # resp[q].body.ticket_id

\* ----------------------------------------------------------------- C12
\* the throttle requests of p's dedup key and bucket window answered
\* allowed=true, and the requests of that key that overlapped p
AllowedOnKeyOf(p) ==
    {q \in Procs : Finished(q, "throttle") /\ SameDedupRequest(p, q) /\ Allowed(q)}

RacersOf(p) ==
    {q \in Procs \ {p} :
        /\ handler[q] = "throttle" /\ SameDedupRequest(p, q)
        /\ ~Before(p, q) /\ ~Before(q, p)}

\* C12 as stated: however many throttle requests race on one dedup key in
\* one bucket window, at most two of them are answered allowed=true.
C12_AtMostTwoAllowed ==
    \A p \in Procs :
        Finished(p, "throttle") => Cardinality(AllowedOnKeyOf(p)) <= 2

\* C12 amended: the requests answered allowed=true on one dedup key in one
\* bucket window number at most one more than the requests that raced with
\* any one of them: at most two when two race, k when k race.
C12_AllowedBoundedByRacers ==
    \A p \in Procs :
        (Finished(p, "throttle") /\ Allowed(p))
        => Cardinality(AllowedOnKeyOf(p)) <= 1 + Cardinality(RacersOf(p))

C12_Witness ==
    \E p \in Procs :
        /\ Finished(p, "throttle") /\ Allowed(p)
        /\ Cardinality(AllowedOnKeyOf(p)) = 3
        /\ Cardinality(RacersOf(p)) = 2

\* ----------------------------------------------------------------- C13
\* some throttle request has completed a successful put at key k
Claimed(k) ==
    \E q \in Procs : Finished(q, "throttle") /\ loc[q].put = "ok" /\ loc[q].key = k

\* C13: once a throttle request has completed its successful put, a dedup
\* record is present at its key and stays present, and every throttle
\* request on that key whose get is served from then on is answered
\* 200 {allowed:false}, whatever the interleaving.
C13_ClaimedState ==
    \A k \in {loc[q].key : q \in Procs} :
        Claimed(k) => k \in DOMAIN dedup_store

C13_ClaimedStep ==
    /\ \A k \in DOMAIN dedup_store : k \in DOMAIN dedup_store'
    /\ \A p \in Procs :
          (/\ handler[p] = "throttle" /\ pc[p] = "get" /\ pc'[p] # "get"
           /\ Claimed(loc[p].key)
           /\ loc'[p].get # "error")
          => /\ pc'[p] = "done"
             /\ resp'[p] = Response(StatusOK, [allowed |-> FALSE])

C13_Convergence == []C13_ClaimedState /\ [][C13_ClaimedStep]_vars

\* a request that started before the claiming put completed, and whose get
\* came after it
C13_Witness ==
    \E p, q \in Procs :
        /\ p # q
        /\ Finished(q, "throttle") /\ loc[q].put = "ok" /\ Allowed(q)
        /\ Finished(p, "throttle") /\ loc[p].key = loc[q].key
        /\ ~Before(q, p) /\ ~Before(p, q)
        /\ loc[p].get = "hit" /\ Denied(p)
        /\ calls[p] = <<"get">>

\* ----------------------------------------------------------------- C14
\* the aligned UTC window of an instant, for a time-based bucket
WindowOf(tb, now) == IF tb = TimeBucketFiveMin THEN now \div 5 ELSE now \div 30

SameSubject(p, q) ==
    /\ req[p].internal_entity_id = req[q].internal_entity_id
    /\ req[p].dedup_obj_type = req[q].dedup_obj_type
    /\ req[p].dedup_obj_id = req[q].dedup_obj_id
    /\ req[p].time_bucket = req[q].time_bucket

\* p reached the dedup store with its storage calls succeeding, and every
\* request other than p and o served on p's dedup key started after p was
\* answered
FirstOnKey(p, o) ==
    /\ Finished(p, "throttle") /\ StorageCallsSucceeded(p)
    /\ \A r \in Procs \ {p, o} :
          (handler[r] = "throttle" /\ loc[r].key = loc[p].key) => Before(p, r)

\* C14: for time_bucket "5 minutes" and "30 minutes", of two throttle
\* requests for the same (internal_entity_id, dedup_obj_type, dedup_obj_id)
\* served one after the other in two different aligned windows, no other
\* request having been served on their dedup keys before them, both are
\* answered 200 {allowed:true}: the record of the earlier window lies under
\* another key and is not consulted.
C14_RollOver ==
    \A p, q \in Procs :
        (/\ req[p].time_bucket \in {TimeBucketFiveMin, TimeBucketThirtyMin}
         /\ FirstOnKey(p, q) /\ FirstOnKey(q, p)
         /\ Before(p, q) /\ SameSubject(p, q)
         /\ WindowOf(req[p].time_bucket, loc[p].now) # WindowOf(req[p].time_bucket, loc[q].now))
        => /\ Allowed(p) /\ Allowed(q)
           /\ loc[p].key # loc[q].key
           /\ loc[p].key \in DOMAIN dedup_store

C14_Witness ==
    \E p, q \in Procs :
        /\ req[p].time_bucket = TimeBucketThirtyMin
        /\ FirstOnKey(p, q) /\ FirstOnKey(q, p)
        /\ Before(p, q) /\ SameSubject(p, q)
        /\ WindowOf(TimeBucketThirtyMin, loc[p].now) # WindowOf(TimeBucketThirtyMin, loc[q].now)
        /\ Allowed(p) /\ Allowed(q)

\* ----------------------------------------------------------------- C15
\* the instants the clock of a run can show
ClockValues == ClockStart..(ClockStart + MaxAdvance)

\* C15: the label of "forever" is "forever_bucket" at every instant, so
\* once a throttle request with time_bucket "forever" has stored its
\* record, every later request with the same (internal_entity_id,
\* dedup_obj_type, dedup_obj_id) and time_bucket "forever" that overlaps no
\* other request and whose storage calls succeed is answered
\* 200 {allowed:false}, however far the clock has advanced.
C15_ForeverNeverExpires ==
    /\ \A t \in ClockValues \cup Instants :
          calculateTimeBucket(TimeBucketForever, t) = [label |-> "forever_bucket", err |-> ""]
    /\ \A p, q \in Procs :
          (/\ Finished(p, "throttle") /\ req[p].time_bucket = TimeBucketForever
           /\ loc[p].put = "ok"
           /\ Finished(q, "throttle") /\ Before(p, q) /\ SameSubject(p, q)
           /\ NonOverlapping(q) /\ StorageCallsSucceeded(q))
          => /\ loc[q].bucket = "forever_bucket"
             /\ loc[q].key = loc[p].key
             /\ Denied(q)

\* the later request is served two five-minute windows and one
\* thirty-minute window after the first
C15_Witness ==
    \E p, q \in Procs :
        /\ Finished(p, "throttle") /\ req[p].time_bucket = TimeBucketForever
        /\ loc[p].put = "ok" /\ Allowed(p)
        /\ Finished(q, "throttle") /\ Before(p, q) /\ SameSubject(p, q)
        /\ NonOverlapping(q) /\ StorageCallsSucceeded(q)
        /\ loc[q].now \div 30 # loc[p].now \div 30
        /\ Denied(q)

\* ----------------------------------------------------------------- C16
Evaluated(p) == handler[p] = "calculateTimeBucket" /\ pc[p] = "done"

TimeBased(p) == req[p].time_bucket \in {TimeBucketFiveMin, TimeBucketThirtyMin}

WidthOf(tb) == IF tb = TimeBucketFiveMin THEN 5 ELSE 30

\* C16: for every instant t the label of "5 minutes" (resp. "30 minutes")
\* is the date and hour of t followed by a minute m that is a multiple of
\* 5 (resp. 30) with m <= minute(t) < m + 5 (resp. 30), the lower boundary
\* included; two instants get the same label exactly when they lie in the
\* same aligned window of the same hour and date.
C16_Flooring ==
    /\ \A p \in Procs :
          (Evaluated(p) /\ TimeBased(p))
          => LET t == loc[p].now
                 w == WidthOf(req[p].time_bucket)
             IN /\ loc[p].err = ""
                /\ \E m \in 0..59 :
                      /\ m % w = 0
                      /\ m <= t % 60 /\ t % 60 < m + w
                      /\ loc[p].bucket =
                             "2023-05-" \o TwoDigits(15 + (t \div 1440)) \o "_"
                                 \o TwoDigits((t % 1440) \div 60) \o ":" \o TwoDigits(m)
    /\ \A p, q \in Procs :
          (/\ Evaluated(p) /\ Evaluated(q) /\ TimeBased(p)
           /\ req[p].time_bucket = req[q].time_bucket)
          => ((loc[p].bucket = loc[q].bucket)
                <=> (loc[p].now \div WidthOf(req[p].time_bucket)
                         = loc[q].now \div WidthOf(req[p].time_bucket)))

\* the two sides of a five-minute boundary
C16_Witness ==
    \E p, q \in Procs :
        /\ Evaluated(p) /\ Evaluated(q)
        /\ req[p].time_bucket = TimeBucketFiveMin /\ req[q].time_bucket = TimeBucketFiveMin
        /\ loc[p].now = 10 * 60 + 19 /\ loc[p].bucket = "2023-05-15_10:15"
        /\ loc[q].now = 10 * 60 + 20 /\ loc[q].bucket = "2023-05-15_10:20"

\* ----------------------------------------------------------------- C17
InvalidBucket(tb) == tb \notin {"forever", "5 minutes", "30 minutes"}

\* C17: a throttle request whose time_bucket is none of "forever",
\* "5 minutes", "30 minutes" is answered 500 with the message "unsupported
\* time bucket value: <value> (must be one of: forever, 5 minutes, 30
\* minutes)" once its client is built; it issues no get and no put, and the
\* step that answers it leaves both collections as they were.
C17_InvalidBucketState ==
    \A p \in Procs :
        (Finished(p, "throttle") /\ InvalidBucket(req[p].time_bucket))
        => /\ calls[p] = <<>>
           /\ resp[p].code = StatusInternalServerError
           /\ loc[p].client = "ok"
              => resp[p] =
                     [code |-> 500, body |-> <<>>,
                      errors |-> <<[code |-> 500,
                                    message |-> "unsupported time bucket value: "
                                        \o req[p].time_bucket
                                        \o " (must be one of: forever, 5 minutes, 30 minutes)"]>>]

C17_InvalidBucketStep ==
    \A p \in Procs :
        (pc[p] = "idle" /\ handler'[p] = "throttle" /\ InvalidBucket(req'[p].time_bucket))
        => /\ pc'[p] = "done"
           /\ UNCHANGED <<tracked_entities, dedup_store>>

C17_InvalidBucketRejected == []C17_InvalidBucketState /\ [][C17_InvalidBucketStep]_vars

C17_Witness ==
    \E p, q \in Procs :
        /\ Finished(q, "throttle") /\ loc[q].put = "ok" /\ Before(q, p)
        /\ Finished(p, "throttle") /\ req[p].time_bucket = "1 hour"
        /\ loc[p].client = "ok"
        /\ resp[p].code = StatusInternalServerError
        /\ HasPrefix(Message(resp[p]), "unsupported time bucket value: 1 hour")

\* ----------------------------------------------------------------- C18
\* the ITSM command of a create-incident request did not succeed: no
\* usable response, a fault while reading it, or an error field
CommandDidNotSucceed(p) ==
    /\ loc[p].rpc = "called"
    /\ \/ ~Answered(p)
       \/ HasErrorField(p)

\* the request failed: no client, no key, a failed storage call, a
\* rejected time bucket, or an ITSM command that did not succeed
Failed(p) ==
    \/ loc[p].client = "error"
    \/ loc[p].get = "error" \/ loc[p].put = "error"
    \/ handler[p] = "throttle" /\ InvalidBucket(req[p].time_bucket)
    \/ handler[p] # "throttle" /\ loc[p].client = "ok" /\ loc[p].key = ""
    \/ handler[p] \in IncidentHandlers /\ CommandDidNotSucceed(p)

\* C18: every response of the five handlers has code 200, 201 or 500; it
\* is 500 exactly when the request failed, and then it carries an error and
\* no body; create-incident answers 200 only when its lookup found a
\* mapping and 201 only after it invoked the ITSM RPC; create-entity-mapping
\* answers 201 on success, check-external-entity and throttle answer 200.
C18_StatusCodes ==
    \A p \in Procs :
        pc[p] = "done"
        => /\ resp[p].code \in {200, 201, 500}
           /\ (resp[p].code = 500) <=> Failed(p)
           /\ (resp[p].code = 500) <=> IsError(resp[p])
           /\ IsError(resp[p]) => (resp[p].body = <<>> /\ Len(resp[p].errors) = 1
                                     /\ resp[p].errors[1].code = 500)
           /\ ~IsError(resp[p]) => resp[p].body # <<>>
           /\ handler[p] \in IncidentHandlers
              => /\ (resp[p].code = 200) => (loc[p].get = "hit" /\ calls[p] = <<"get">>)
                 /\ (resp[p].code = 201)
                        => (Len(calls[p]) >= 2 /\ calls[p][1] = "get" /\ calls[p][2] = "rpc")
           /\ (handler[p] = "mapping" /\ ~Failed(p)) => resp[p].code = 201
           /\ (handler[p] \in {"check", "throttle"} /\ ~Failed(p)) => resp[p].code = 200

\* one run in which a create-incident request fails on the ITSM command
\* and a throttle request succeeds
C18_Witness ==
    \E p, q \in Procs :
        /\ pc[p] = "done" /\ handler[p] \in IncidentHandlers
        /\ CommandDidNotSucceed(p) /\ resp[p].code = 500
        /\ Finished(q, "throttle") /\ ~Failed(q) /\ resp[q].code = 200

\* ----------------------------------------------------------------- C19
HasSuffix(s, t) == Len(s) >= Len(t) /\ SubSeq(s, Len(s) - Len(t) + 1, Len(s)) = t

\* the RPC handed back resources whose first is nil, or whose response body
\* is not a JSON object: reading it raises a runtime fault
Faulted(p) ==
    /\ loc[p].rpc = "called"
    /\ loc[p].execResp.err = ""
    /\ ~loc[p].execResp.isNil /\ ~loc[p].execResp.payloadNil
    /\ Len(loc[p].execResp.resources) > 0
    /\ \/ loc[p].execResp.resources[1].isNil
       \/ loc[p].execResp.resources[1].ResponseBody.t # "object"

\* C19: a runtime fault raised inside create-incident or create-sir-incident
\* (a nil first resource, a response body that is not a JSON object) is
\* recovered: the request is answered 500 with a message of the form
\* "Internal fn error: <value> (trace_id: '<trace_id>')", it issues no put,
\* and the step leaves tracked_entities as it was.
C19_PanicState ==
    \A p \in Procs :
        (handler[p] \in IncidentHandlers /\ Faulted(p))
        => /\ pc[p] = "done"
           /\ resp[p].code = 500
           /\ resp[p].body = <<>>
           /\ Len(resp[p].errors) = 1
           /\ HasPrefix(resp[p].errors[1].message, "Internal fn error: ")
           /\ HasSuffix(resp[p].errors[1].message,
                        " (trace_id: '" \o req[p].trace_id \o "')")
           /\ Len(resp[p].errors[1].message)
                  > Len("Internal fn error: ") + Len(" (trace_id: '" \o req[p].trace_id \o "')")
           /\ calls[p] = <<"get", "rpc">>

C19_PanicStep ==
    \A p \in Procs :
        (handler[p] \in IncidentHandlers /\ pc[p] = "rpc" /\ Faulted(p)')
        => UNCHANGED <<tracked_entities, dedup_store>>

C19_PanicSafety == []C19_PanicState /\ [][C19_PanicStep]_vars

C19_Witness ==
    \E p, q \in Procs :
        /\ handler[p] = "incident" /\ Faulted(p)
        /\ loc[p].execResp.resources[1].isNil
        /\ resp[p].code = 500
        /\ handler[q] = "sir" /\ Faulted(q)
        /\ ~loc[q].execResp.resources[1].isNil
        /\ resp[q].code = 500
        /\ tracked_entities = <<>>

\* ----------------------------------------------------------------- C20
\* the put of request p succeeded and no later put went to its key
HoldsWriteOf(p) ==
    /\ pc[p] = "done" /\ handler[p] \in IncidentHandlers \cup {"mapping"}
    /\ loc[p].put = "ok"
    /\ loc[p].key \in DOMAIN writer /\ writer[loc[p].key] = p

\* C20: after a successful create_or_update_mapping(r) and as long as no
\* other write goes to its key, check_external_entity_exists(
\* r.internal_entity_id, r.external_system_id) returns (true, r') with r'
\* equal to r on all three fields, and a check-external-entity request that
\* reads that object answers with r's external_entity_id and
\* external_system_id.
C20_RoundTrip ==
    \A p \in Procs :
        HoldsWriteOf(p)
        => LET r == loc[p].entityRecord
               found == Lookup(r.internal_entity_id, r.external_system_id, FALSE)
           IN /\ found.err = "" /\ found.exists /\ found.hasRec
              /\ found.rec.internal_entity_id = r.internal_entity_id
              /\ found.rec.external_entity_id = r.external_entity_id
              /\ found.rec.external_system_id = r.external_system_id
              /\ \A q \in Procs :
                    (/\ Finished(q, "check") /\ loc[q].readFrom = p
                     /\ req[q].internal_entity_id = r.internal_entity_id
                     /\ req[q].external_system_id = r.external_system_id)
                    => resp[q] = [code |-> 200, errors |-> <<>>,
                                  body |-> [exists |-> TRUE,
                                            ext_id |-> r.external_entity_id,
                                            ext_system_id |-> r.external_system_id]]

C20_Witness ==
    \E p, q \in Procs :
        /\ HoldsWriteOf(p) /\ handler[p] = "mapping"
        /\ loc[p].entityRecord.external_system_id = "servicenow/incident"
        /\ loc[p].entityRecord.external_entity_id # ""
        /\ Finished(q, "check") /\ loc[q].readFrom = p
        /\ req[q].internal_entity_id = loc[p].entityRecord.internal_entity_id
        /\ req[q].external_system_id = loc[p].entityRecord.external_system_id
        /\ resp[q].code = 200 /\ resp[q].body.exists

\* ----------------------------------------------------------------- C21
SamePair(p, q) ==
    /\ req[p].external_system_id = req[q].external_system_id
    /\ req[p].internal_entity_id = req[q].internal_entity_id

MappingCreated(p) == Finished(p, "mapping") /\ loc[p].put = "ok"

\* C21: create-entity-mapping never reads the store: its only outbound call
\* is the put, and on success it answers 201 with its own record.  Of two
\* successful requests for the same (external_system_id,
\* internal_entity_id), the second served after the first, the record of
\* the first is no longer the stored one, and while the key holds the write
\* of the second a lookup of the pair returns the second's external id.
C21_LastWriteWins ==
    /\ \A p \in Procs :
          Finished(p, "mapping")
          => /\ calls[p] \in {<<>>, <<"put">>}
             /\ MappingCreated(p)
                => resp[p] = [code |-> 201, errors |-> <<>>,
                              body |-> [internal_entity_id |-> req[p].internal_entity_id,
                                        external_entity_id |-> req[p].external_entity_id,
                                        external_system_id |-> req[p].external_system_id]]
    /\ \A p, q \in Procs :
          (MappingCreated(p) /\ MappingCreated(q) /\ Before(p, q) /\ SamePair(p, q))
          => /\ loc[q].key \in DOMAIN tracked_entities
             /\ writer[loc[q].key] # p
             /\ writer[loc[q].key] = q
                => LET found == Lookup(req[q].internal_entity_id,
                                       req[q].external_system_id, FALSE)
                   IN /\ found.exists /\ found.err = ""
                      /\ found.rec.external_entity_id = req[q].external_entity_id

C21_Witness ==
    \E p, q \in Procs :
        /\ MappingCreated(p) /\ MappingCreated(q) /\ Before(p, q) /\ SamePair(p, q)
        /\ req[p].external_entity_id = "INC0001" /\ req[q].external_entity_id = "INC0002"
        /\ resp[p].code = 201 /\ resp[q].code = 201
        /\ resp[p].body.external_entity_id = "INC0001"
        /\ Lookup(req[q].internal_entity_id, req[q].external_system_id,
                  FALSE).rec.external_entity_id = "INC0002"

\* ----------------------------------------------------------------- C22
\* request p stored a mapping of ticket class sys
WroteClass(p, sys) ==
    /\ pc[p] = "done" /\ handler[p] \in IncidentHandlers \cup {"mapping"}
    /\ loc[p].put = "ok"
    /\ loc[p].entityRecord.external_system_id = sys

\* a mapping of one class stored for an entity, then one of the other class
ClassesInTurn(p, q) ==
    /\ \/ WroteClass(p, "servicenow_incident") /\ WroteClass(q, "servicenow_sir_incident")
       \/ WroteClass(p, "servicenow_sir_incident") /\ WroteClass(q, "servicenow_incident")
    /\ loc[p].entityRecord.internal_entity_id = loc[q].entityRecord.internal_entity_id
    /\ Before(p, q)

\* C22 as stated: when the two ticket classes are used for the same
\* internal entity they share one storage key, and the record of the class
\* written second replaces the record of the class written first.
C22_CrossClassOverwrite ==
    \A p, q \in Procs :
        ClassesInTurn(p, q)
        => /\ loc[p].key = loc[q].key
           /\ writer[loc[p].key] # p

\* C22 amended: the two ticket classes have different storage keys for the
\* same internal entity, so the record of the class written second does not
\* replace the record of the class written first: both are stored, and
\* while no other write goes to the first's key the lookup of each class
\* returns its own record.
C22_ClassesKeptApart ==
    \A p, q \in Procs :
        ClassesInTurn(p, q)
        => /\ loc[p].key # loc[q].key
           /\ loc[p].key \in DOMAIN tracked_entities
           /\ loc[q].key \in DOMAIN tracked_entities
           /\ writer[loc[p].key] # q
           /\ writer[loc[p].key] = p
              => Lookup(loc[p].entityRecord.internal_entity_id,
                        loc[p].entityRecord.external_system_id, FALSE)
                     = [exists |-> TRUE, hasRec |-> TRUE,
                        rec |-> loc[p].entityRecord, err |-> ""]

C22_Witness ==
    \E p, q \in Procs :
        /\ ClassesInTurn(p, q)
        /\ handler[p] = "incident" /\ handler[q] = "sir"
        /\ writer[loc[p].key] = p /\ writer[loc[q].key] = q
        /\ Stored(loc[p].key).external_system_id = "servicenow_incident"
        /\ Stored(loc[q].key).external_system_id = "servicenow_sir_incident"

\* ----------------------------------------------------------------- C23
KeyAlphabet ==
    LET cs == "ABCDEFGHIJKLMNOPQRSTUVWXYZabcdefghijklmnopqrstuvwxyz0123456789._-"
    IN {SubSeq(cs, i, i) : i \in 1..Len(cs)}

\* C23: the key of an input (for tracked_entity_key: external_system_id,
\* ".", internal_entity_id) is an "exceeds maximum length" error exactly
\* when the input has more than 1000 characters; otherwise it is the input
\* with every character outside [A-Za-z0-9._-] replaced by "_" and every
\* other character kept: a key of at most 1000 characters of that
\* alphabet, empty for the empty input.
C23_Sanitizer ==
    \A p \in Procs :
        (pc[p] = "done" /\ handler[p] \in {"sanitizeObjectKey", "CreateTrackedEntityKey"})
        => LET in == loc[p].input
               key == loc[p].key
           IN /\ handler[p] = "CreateTrackedEntityKey"
                 => in = req[p].external_system_id \o "." \o req[p].internal_entity_id
              /\ IF Len(in) > 1000
                 THEN /\ key = ""
                      /\ Contains(loc[p].err, "exceeds maximum length")
                 ELSE /\ loc[p].err = ""
                      /\ Len(key) = Len(in) /\ Len(key) <= 1000
                      /\ \A i \in 1..Len(in) :
                            /\ SubSeq(key, i, i) \in KeyAlphabet
                            /\ SubSeq(key, i, i) =
                                   (IF SubSeq(in, i, i) \in KeyAlphabet
                                    THEN SubSeq(in, i, i) ELSE "_")
                      /\ in = "" => key = ""

\* a key at the limit with replaced characters, and an input over the limit
C23_Witness ==
    \E p, q \in Procs :
        /\ pc[p] = "done" /\ handler[p] = "CreateTrackedEntityKey"
        /\ Len(loc[p].input) = 1000 /\ loc[p].err = ""
        /\ SubSeq(loc[p].key, 1000, 1000) = "_"
        /\ pc[q] = "done" /\ Len(loc[q].input) = 1001 /\ loc[q].err # ""

\* ----------------------------------------------------------------- C24
\* C24: check-external-entity writes to neither collection; its only
\* outbound call is a get.  When the get reports "not found" it answers 200
\* with the body {exists:false} and nothing else; when the get returns a
\* record of the requested external system it answers 200 {exists:true,
\* ext_id: the stored external_entity_id, ext_system_id: the stored
\* external_system_id}; when the get fails otherwise it answers 500.
C24_CheckState ==
    \A p \in Procs :
        Finished(p, "check") => calls[p] \in {<<>>, <<"get">>}

C24_CheckStep ==
    \A p \in Procs :
        (handler'[p] = "check" /\ pc'[p] # pc[p])
        => /\ UNCHANGED <<tracked_entities, dedup_store>>
           /\ pc[p] = "get"
              => LET k == loc[p].key
                 IN /\ pc'[p] = "done"
                    /\ loc'[p].get = "error"
                       => (resp'[p].code = 500 /\ resp'[p].body = <<>>)
                    /\ (loc'[p].get # "error" /\ k \notin DOMAIN tracked_entities)
                       => resp'[p] = [code |-> 200, errors |-> <<>>,
                                      body |-> [exists |-> FALSE]]
                    /\ (/\ loc'[p].get # "error" /\ k \in DOMAIN tracked_entities
                        /\ tracked_entities[k].obj.external_system_id
                               = req[p].external_system_id)
                       => resp'[p] =
                              [code |-> 200, errors |-> <<>>,
                               body |-> [exists |-> TRUE,
                                         ext_id |-> tracked_entities[k].obj.external_entity_id,
                                         ext_system_id |->
                                             tracked_entities[k].obj.external_system_id]]

C24_CheckReadOnly == []C24_CheckState /\ [][C24_CheckStep]_vars

\* a check answered from the record a create-entity-mapping request stored
C24_Witness ==
    \E w, p \in Procs :
        /\ Finished(w, "mapping") /\ req[w].external_entity_id = "INC0002"
        /\ Finished(p, "check") /\ loc[p].readFrom = w
        /\ calls[p] = <<"get">>
        /\ resp[p] = [code |-> 200, errors |-> <<>>,
                      body |-> [exists |-> TRUE, ext_id |-> "INC0002",
                                ext_system_id |-> req[p].external_system_id]]
        /\ tracked_entities[loc[p].key].obj.external_entity_id = "INC0002"

\* ----------------------------------------------------------------- C25
\* the answer 500 with one error of the given message
Failure(message) ==
    [code |-> 500, body |-> <<>>, errors |-> <<[code |-> 500, message |-> message]>>]

\* what the shape checks make of an RPC outcome: "" when they pass
ShapeFailure(x) ==
    IF x.err # "" THEN "failed to execute command: " \o x.err
    ELSE IF x.isNil THEN "failed to execute command - nil response"
    ELSE IF x.payloadNil THEN "failed to execute command - empty response"
    ELSE IF Len(x.resources) = 0
    THEN "failed to execute command - empty resources in response payload"
    ELSE ""

\* C25: when the RPC fails in transport, create-incident answers 500
\* "failed to execute command: <underlying>"; when it succeeds in transport
\* and the response is absent, or its payload is absent, or its resources
\* list is empty, the answer is 500 "failed to execute command - nil
\* response" / "- empty response" / "- empty resources in response payload";
\* in all four cases no put is issued and tracked_entities is unchanged.
C25_ShapeState ==
    \A p \in Procs :
        (handler[p] \in IncidentHandlers /\ loc[p].rpc = "called"
             /\ ShapeFailure(loc[p].execResp) # "")
        => /\ pc[p] = "done"
           /\ resp[p] = Failure(ShapeFailure(loc[p].execResp))
           /\ calls[p] = <<"get", "rpc">>

C25_ShapeStep ==
    \A p \in Procs :
        (handler[p] \in IncidentHandlers /\ pc[p] = "rpc"
             /\ loc'[p].rpc = "called" /\ ShapeFailure(loc'[p].execResp) # "")
        => UNCHANGED <<tracked_entities, dedup_store>>

NamedFields == OptionalFields \cup {"short_description"}

Merged(body) ==
    LET d == JsonUnmarshalMap(body.custom_fields)
    IN IF body.custom_fields # "" /\ d.err = "" THEN d.fields ELSE <<>>

C26_Payload ==
    \A p \in Procs :
        (handler[p] \in IncidentHandlers /\ loc[p].get = "miss") =>
            LET body == req[p]
                sent == loc[p].requestPayload
                custom == Merged(body)
            IN /\ "short_description" \in DOMAIN sent
               /\ \A f \in OptionalFields \ DOMAIN custom :
                      f \in DOMAIN sent <=> body[f] # ""
               /\ \A f \in (NamedFields \ DOMAIN custom) \cap DOMAIN sent :
                      sent[f] = JStr(body[f])
               /\ \A k \in DOMAIN custom : k \in DOMAIN sent /\ sent[k] = custom[k]
               /\ DOMAIN sent \subseteq NamedFields \cup DOMAIN custom
               /\ pc[p] # "get"
               /\ pc[p] # "rpc" => (Len(calls[p]) >= 2 /\ calls[p][2] = "rpc")

\* a request whose custom_fields sets short_description and category, both
\* also given by name, next to one named field it leaves alone, was sent
C26_Witness ==
    \E p \in Procs :
        /\ handler[p] \in IncidentHandlers /\ "rpc" \in {calls[p][i] : i \in DOMAIN calls[p]}
        /\ req[p].custom_fields = "{\"short_description\":\"override\",\"category\":\"network\"}"
        /\ req[p].short_description = "Disk full"
        /\ req[p].category = "value of category"
        /\ req[p].urgency = "value of urgency"
        /\ req[p].impact = ""
        /\ loc[p].requestPayload["short_description"] = JStr("override")
        /\ loc[p].requestPayload["category"] = JStr("network")
        /\ loc[p].requestPayload["urgency"] = JStr("value of urgency")
        /\ "impact" \notin DOMAIN loc[p].requestPayload
\* ------------------------------------------------------------------ C27
\* C27: a create-incident whose RPC handed back a non-empty sys_id and
\* whose put of the mapping failed is answered 500 with the storage error,
\* and the failed put leaves tracked_entities as it was; a later
\* create-incident for the same entity and class, started after that
\* answer, whose lookup is served, and with no other request having
\* stored the key, finds no mapping and invokes the RPC again.
PutFailedAfterTicket(p) ==
    /\ IsIncident(p)
    /\ Answered(p) /\ ~HasErrorField(p) /\ UsableResult(p) /\ SysIDOf(p) # ""
    /\ loc[p].put = "error"

RetryOf(p, q) ==
    /\ handler[q] = handler[p] /\ req[q].entity_id = req[p].entity_id
    /\ Before(p, q)
    /\ loc[q].get \in {"hit", "miss"}
    /\ \A r \in Procs \ {p, q} : ~(loc[r].key = loc[p].key /\ loc[r].put = "ok")

InvokedRpc(q) == pc[q] = "rpc" \/ "rpc" \in {calls[q][i] : i \in DOMAIN calls[q]}

C27_PutFailureState ==
    \A p \in Procs :
        PutFailedAfterTicket(p)
        => /\ resp[p] = ErrResp(StatusInternalServerError,
                                "error storing entity mapping in collection: " \o PutFault)
           /\ \A q \in Procs : RetryOf(p, q) => (loc[q].get = "miss" /\ InvokedRpc(q))

C27_PutFailureStep ==
    \A p \in Procs :
        (handler[p] \in IncidentHandlers /\ pc[p] = "put" /\ loc'[p].put = "error")
        => tracked_entities' = tracked_entities

C27_PutFailure == []C27_PutFailureState /\ [][C27_PutFailureStep]_vars

\* the retry was handed a second ticket, and its mapping is the one stored
C27_Witness ==
    \E p, q \in Procs :
        /\ PutFailedAfterTicket(p) /\ RetryOf(p, q)
        /\ CreatedTicket(q) /\ SysIDOf(q) # SysIDOf(p)
        /\ resp[q].code = StatusCreated
        /\ Stored(loc[q].key).external_entity_id = SysIDOf(q)
\* ------------------------------------------------------------------ C28
\* C28: a throttle request whose get fails with anything but "not found"
\* is answered 500 and issues no put; one whose get reports "not found"
\* and whose put fails is answered 500, the failed put leaves dedup_store
\* as it was, and, no other request having stored the key, no record is
\* at the key, so that a later request with the same four fields under
\* the same bucket label, its storage calls succeeding, is answered
\* {allowed:true}; one that fetches an object that does not decode is
\* answered 500 and issues no put.
ThrottleFailure(p, prefix) ==
    /\ pc[p] = "done"
    /\ resp[p].code = StatusInternalServerError
    /\ HasPrefix(Message(resp[p]), prefix)

OthersStored(p, q) ==
    \E r \in Procs \ {p, q} : loc[r].key = loc[p].key /\ loc[r].put = "ok"

C28_StorageErrorState ==
    \A p \in Procs :
        handler[p] = "throttle"
        => /\ loc[p].get = "error"
              => (ThrottleFailure(p, "failed to check dedup record: ") /\ calls[p] = <<"get">>)
           /\ (loc[p].get = "miss" /\ loc[p].put = "error")
              => /\ ThrottleFailure(p, "failed to store dedup record: ")
                 /\ \A q \in Procs \ {p} :
                        ~OthersStored(p, q)
                        => /\ loc[q].put # "ok" => loc[p].key \notin DOMAIN dedup_store
                           /\ (/\ Finished(q, "throttle") /\ Before(p, q)
                               /\ SameDedupRequest(p, q) /\ StorageCallsSucceeded(q))
                              => Allowed(q)
           /\ (/\ loc[p].get = "hit" /\ loc[p].key \in DOMAIN dedup_store
               /\ ~dedup_store[loc[p].key].valid)
              => (ThrottleFailure(p, "failed to unmarshal dedup record: ") /\ calls[p] = <<"get">>)

C28_StorageErrorStep ==
    \A p \in Procs :
        (handler[p] = "throttle" /\ pc[p] = "put" /\ loc'[p].put = "error")
        => dedup_store' = dedup_store

C28_StorageErrors == []C28_StorageErrorState /\ [][C28_StorageErrorStep]_vars

\* one request's put failed and the same request, repeated, was allowed;
\* a third fetched the object that is no JSON
C28_Witness ==
    \E p, q, r \in Procs :
        /\ handler[p] = "throttle" /\ loc[p].get = "miss" /\ loc[p].put = "error"
        /\ resp[p].code = StatusInternalServerError
        /\ Finished(q, "throttle") /\ Before(p, q) /\ SameDedupRequest(p, q) /\ Allowed(q)
        /\ handler[r] = "throttle" /\ loc[r].get = "hit"
        /\ ~dedup_store[loc[r].key].valid
        /\ resp[r].code = StatusInternalServerError
\* ------------------------------------------------------------------ C29
PutsDedup(p) == handler[p] = "throttle" /\ pc[p] = "put" /\ loc'[p].put = "ok"

StoredBucket(store, k) == UnmarshalDedupStoreRecord(store[k]).rec

\* every record in dedup_store is the one a request that put it wrote
C29_StoredByWriter ==
    \A k \in DOMAIN dedup_store :
        \E q \in Procs :
            /\ handler[q] = "throttle" /\ loc[q].key = k /\ loc[q].put = "ok"
            /\ StoredBucket(dedup_store, k) = DedupStoreRecord(req[q].time_bucket)

\* C29 as stated: a put lands only on a key that holds no record, it is
\* issued only by a request that observed the key absent, and the stored
\* record's time_bucket is that of the request that wrote it.
C29_NoOverwriteStep ==
    \A p \in Procs :
        PutsDedup(p)
        => /\ loc[p].key \notin DOMAIN dedup_store
           /\ loc[p].get = "miss"
           /\ StoredBucket(dedup_store', loc[p].key) = DedupStoreRecord(req[p].time_bucket)

C29_WriteOnce == []C29_StoredByWriter /\ [][C29_NoOverwriteStep]_vars

\* C29 amended: a put is issued only by a request that observed the key
\* absent and it leaves at the key the record with that request's
\* time_bucket; it lands on a key that already holds a record only when
\* the record was put by a request that had not been answered when the
\* putting request started; a step that is no successful put leaves
\* dedup_store as it was, and a put leaves every other key as it was.
C29_OverwriteByRacerStep ==
    /\ (\A p \in Procs : ~PutsDedup(p)) => dedup_store' = dedup_store
    /\ \A p \in Procs :
          PutsDedup(p)
          => /\ loc[p].get = "miss"
             /\ StoredBucket(dedup_store', loc[p].key) = DedupStoreRecord(req[p].time_bucket)
             /\ \A k \in DOMAIN dedup_store \ {loc[p].key} :
                    k \in DOMAIN dedup_store' /\ dedup_store'[k] = dedup_store[k]
             /\ loc[p].key \in DOMAIN dedup_store
                => \E q \in Procs \ {p} :
                       /\ handler[q] = "throttle" /\ loc[q].key = loc[p].key
                       /\ loc[q].put = "ok" /\ ~Before(q, p)

C29_WrittenByObservers == []C29_StoredByWriter /\ [][C29_OverwriteByRacerStep]_vars

\* a "5 minutes" and a "30 minutes" request raced on one key, both puts
\* landed, and the record is the second one's
C29_Witness ==
    \E p, q \in Procs :
        /\ Finished(p, "throttle") /\ Finished(q, "throttle")
        /\ loc[p].key = loc[q].key /\ loc[p].put = "ok" /\ loc[q].put = "ok"
        /\ req[p].time_bucket = TimeBucketFiveMin /\ req[q].time_bucket = TimeBucketThirtyMin
        /\ ~Before(p, q) /\ ~Before(q, p)
        /\ StoredBucket(dedup_store, loc[p].key) = DedupStoreRecord(TimeBucketThirtyMin)
\* ------------------------------------------------------------------ C30
\* C30: under the five handlers in any interleaving, no step removes a key
\* from tracked_entities or from dedup_store, a key that no successful put
\* of the step targets keeps its object, and a pair whose lookup returns
\* exists=true before a step in which no successful put targets the
\* pair's key has a lookup that returns exists=true after it.
PutLandsOn(k) ==
    \E p \in Procs : pc[p] = "put" /\ loc'[p].put = "ok" /\ loc[p].key = k

\* the keys of the pairs that have one
PairKeys ==
    [pair \in SystemIDs \X EntityIDs |-> CreateTrackedEntityKey(pair[1], pair[2])]
Pairs == {pair \in SystemIDs \X EntityIDs : PairKeys[pair].err = ""}

\* the lookup of a pair against the content `store` of tracked_entities
LookupIn(store, pair) ==
    CheckExternalEntityExists(GetObject(store, PairKeys[pair].key, FALSE), pair[1])

C30_NoDeletionStep ==
    /\ \A k \in DOMAIN tracked_entities :
          /\ k \in DOMAIN tracked_entities'
          /\ ~PutLandsOn(k) => tracked_entities'[k] = tracked_entities[k]
    /\ \A k \in DOMAIN dedup_store :
          /\ k \in DOMAIN dedup_store'
          /\ ~PutLandsOn(k) => dedup_store'[k] = dedup_store[k]
    /\ \A pair \in Pairs :
          (LookupIn(tracked_entities, pair).exists /\ ~PutLandsOn(PairKeys[pair].key))
          => LookupIn(tracked_entities', pair).exists

C30_NoDeletion == [][C30_NoDeletionStep]_vars

\* a mapping was stored, a throttle request that started afterwards stored
\* its dedup record, and the mapping's lookup still finds it
C30_Witness ==
    \E p, q \in Procs :
        /\ Finished(p, "mapping") /\ loc[p].put = "ok"
        /\ Finished(q, "throttle") /\ loc[q].put = "ok" /\ Before(p, q)
        /\ loc[p].key \in DOMAIN tracked_entities /\ loc[q].key \in DOMAIN dedup_store
        /\ <<req[p].external_system_id, req[p].internal_entity_id>> \in Pairs
        /\ LookupIn(tracked_entities,
                    <<req[p].external_system_id, req[p].internal_entity_id>>).exists
\* ------------------------------------------------------------------ C31
\* C31: the outbound calls of a create-incident request are an initial
\* part of get, RPC, put; the RPC is issued only after the get reported no
\* mapping, the put only after the RPC handed back a body without error
\* field and with a non-empty sys_id; a request whose get, RPC or put
\* failed has been answered 500, and an answered request issues no further
\* call.  The calls of a throttle request are an initial part of get, put.
IsPrefix(a, b) == Len(a) <= Len(b) /\ a = SubSeq(b, 1, Len(a))

Issued(p, call) == call \in {calls[p][i] : i \in DOMAIN calls[p]}

EndedWith500(p) == pc[p] = "done" /\ resp[p].code = StatusInternalServerError

C31_StepOrderState ==
    \A p \in Procs :
        /\ handler[p] \in IncidentHandlers
           => /\ IsPrefix(calls[p], <<"get", "rpc", "put">>)
              /\ Issued(p, "rpc") => loc[p].get = "miss"
              /\ Issued(p, "put")
                 => (Answered(p) /\ ~HasErrorField(p) /\ UsableResult(p) /\ SysIDOf(p) # "")
              /\ loc[p].get = "error" => (EndedWith500(p) /\ calls[p] = <<"get">>)
              /\ (loc[p].rpc = "called" /\ loc[p].execResp.err # "")
                 => (EndedWith500(p) /\ calls[p] = <<"get", "rpc">>)
              /\ loc[p].put = "error" => EndedWith500(p)
        /\ handler[p] = "throttle"
           => /\ IsPrefix(calls[p], <<"get", "put">>)
              /\ Issued(p, "put") => loc[p].get = "miss"

C31_StepOrderStep ==
    \A p \in Procs :
        /\ pc[p] = "done" => (pc'[p] = "done" /\ calls'[p] = calls[p] /\ resp'[p] = resp[p])
        /\ calls'[p] # calls[p]
           => (Len(calls'[p]) = Len(calls[p]) + 1 /\ IsPrefix(calls[p], calls'[p]))

C31_StepOrder == []C31_StepOrderState /\ [][C31_StepOrderStep]_vars

\* a create-incident that went through its three calls, next to one whose
\* put failed
C31_Witness ==
    \E p, q \in Procs :
        /\ handler[p] \in IncidentHandlers /\ pc[p] = "done"
        /\ calls[p] = <<"get", "rpc", "put">> /\ resp[p].code = StatusCreated
        /\ handler[q] \in IncidentHandlers /\ loc[q].put = "error"
        /\ calls[q] = <<"get", "rpc", "put">> /\ EndedWith500(q)
\* ------------------------------------------------------------------ C32
\* C32: over an object that does not decode, the lookup returns
\* exists=true, no record and an error.  A check-external-entity or
\* create-incident request whose get meets such an object is answered, in
\* that step, 500 "failed to check if ticket exists: ..." (for the
\* decoding error, or for the get's own error when the backend failed
\* it), with no exists field, and its only outbound call is the get: no
\* RPC and no put.
Undecodable(k) == k \in DOMAIN tracked_entities /\ ~tracked_entities[k].valid

UnmarshalFailure ==
    "failed to check if ticket exists: failed to unmarshal external entity record: "

C32_SentinelState ==
    \A k \in DOMAIN tracked_entities, sys \in SystemIDs :
        Undecodable(k)
        => LET found == CheckExternalEntityExists(GetObject(tracked_entities, k, FALSE), sys)
           IN /\ found.exists /\ ~found.hasRec
              /\ HasPrefix(found.err, "failed to unmarshal external entity record: ")

C32_SentinelStep ==
    \A p \in Procs :
        (/\ handler[p] \in IncidentHandlers \cup {"check"}
         /\ pc[p] = "get" /\ pc'[p] # "get"
         /\ Undecodable(loc[p].key))
        => /\ pc'[p] = "done"
           /\ resp'[p].code = StatusInternalServerError
           /\ \/ HasPrefix(Message(resp'[p]), UnmarshalFailure)
              \/ loc'[p].get = "error"
                 /\ HasPrefix(Message(resp'[p]),
                              "failed to check if ticket exists: failed to check if external entity exists: ")
           /\ ~HasField(resp'[p], "exists")
           /\ calls'[p] = <<"get">>

C32_DecodeFailure == []C32_SentinelState /\ [][C32_SentinelStep]_vars

\* a check-external-entity and a create-incident both met the object
C32_Witness ==
    \E p, q \in Procs :
        /\ Finished(p, "check") /\ Finished(q, "incident")
        /\ loc[p].key = loc[q].key /\ Undecodable(loc[p].key)
        /\ HasPrefix(Message(resp[p]), UnmarshalFailure)
        /\ HasPrefix(Message(resp[q]), UnmarshalFailure)
        /\ calls[p] = <<"get">> /\ calls[q] = <<"get">>
\* ------------------------------------------------------------------ C33
\* C33: create-incident invokes operation create_incident, looks up and
\* writes the key and record of servicenow_incident, and answers
\* ticket_type "incident" on the warm path; create-sir-incident invokes
\* create_sn_si_incident, uses servicenow_sir_incident and answers
\* "sn_si_incident"; and the mapping a warm path reads was never written
\* by the other incident handler.
ClassTriple(h) ==
    IF h = "incident" THEN <<"create_incident", "incident", "servicenow_incident">>
    ELSE <<"create_sn_si_incident", "sn_si_incident", "servicenow_sir_incident">>

WarmPath(p) ==
    handler[p] \in IncidentHandlers /\ pc[p] = "done" /\ loc[p].get = "hit"

C33_ClassBinding ==
    \A p \in Procs :
        handler[p] \in IncidentHandlers
        => LET triple == ClassTriple(handler[p])
           IN /\ loc[p].key # ""
                 => loc[p].key = triple[3] \o "." \o req[p].entity_id
              /\ InvokedRpc(p) => loc[p].operationID = triple[1]
              /\ loc[p].put = "ok"
                 => loc[p].entityRecord.external_system_id = triple[3]
              /\ WarmPath(p)
                 => /\ resp[p].code = StatusOK
                    /\ resp[p].body.ticket_type = triple[2]
                    /\ loc[p].extRecord.external_system_id = triple[3]
                    /\ \A w \in Procs :
                           loc[p].readFrom = w
                           => handler[w] \notin IncidentHandlers \ {handler[p]}

\* create-incident stored a mapping for an entity; create-sir-incident for
\* the same entity, started afterwards, took the cold path with its own
\* operation and stored its own mapping
C33_Witness ==
    \E p, q \in Procs :
        /\ Finished(p, "incident") /\ Finished(q, "sir") /\ Before(p, q)
        /\ req[p].entity_id = req[q].entity_id
        /\ loc[p].put = "ok" /\ loc[q].get = "miss" /\ loc[q].put = "ok"
        /\ loc[p].operationID = "create_incident"
        /\ loc[q].operationID = "create_sn_si_incident"
        /\ loc[p].key # loc[q].key
        /\ {loc[p].key, loc[q].key} \subseteq DOMAIN tracked_entities
\* ------------------------------------------------------------------ C34
\* C34: a lookup with an empty external_system_id reports exists=true for
\* an entity whenever tracked_entities holds a mapping of that entity
\* stored under some external system.
MappedUnderSomeSystem(e) ==
    \E k \in DOMAIN tracked_entities :
        /\ tracked_entities[k].valid
        /\ Stored(k).internal_entity_id = e
        /\ Stored(k).external_system_id # ""

C34_EmptySystemLookup ==
    \A e \in EntityIDs :
        MappedUnderSomeSystem(e) => LookupIn(tracked_entities, <<"", e>>).exists
\* ------------------------------------------------------------------ C35
\* C35: a throttle request is answered allowed=false only if another
\* request with the same internal_entity_id, dedup_obj_type and
\* dedup_obj_id stored a record, and two requests that differ in one of
\* the three fields never have the same dedup key.
SameTuple(p, q) ==
    /\ req[p].internal_entity_id = req[q].internal_entity_id
    /\ req[p].dedup_obj_type = req[q].dedup_obj_type
    /\ req[p].dedup_obj_id = req[q].dedup_obj_id

HasDedupKey(p) == handler[p] = "throttle" /\ loc[p].key # ""

C35_TupleIsolation ==
    /\ \A p \in Procs :
          (Finished(p, "throttle") /\ Denied(p))
          => \E q \in Procs \ {p} :
                 HasDedupKey(q) /\ SameTuple(p, q) /\ loc[q].put = "ok"
    /\ \A p, q \in Procs :
          (HasDedupKey(p) /\ HasDedupKey(q) /\ ~SameTuple(p, q))
          => loc[p].key # loc[q].key
\* ------------------------------------------------------------------ C36
\* C36: the record a throttle request finds at its key carries the
\* request's own time_bucket, and two requests with different time_bucket
\* values never have the same dedup key, whatever the clock.
C36_BucketIsolation ==
    /\ \A p \in Procs :
          (handler[p] = "throttle" /\ loc[p].get = "hit")
          => StoredBucket(dedup_store, loc[p].key) = DedupStoreRecord(req[p].time_bucket)
    /\ \A p, q \in Procs :
          (HasDedupKey(p) /\ HasDedupKey(q) /\ req[p].time_bucket # req[q].time_bucket)
          => loc[p].key # loc[q].key
\* ------------------------------------------------------------------ C37
\* C37: a successful put of a mapping by create-entity-mapping or by an
\* incident handler, for the pair P, leaves the result of the lookup of
\* every other pair as it was.
PairOf(p) ==
    IF handler[p] = "mapping"
    THEN <<req[p].external_system_id, req[p].internal_entity_id>>
    ELSE <<BoundSystemID(p), req[p].entity_id>>

PutsMapping(p) ==
    /\ handler[p] \in IncidentHandlers \cup {"mapping"}
    /\ pc[p] = "put" /\ loc'[p].put = "ok"

C37_PairIsolationStep ==
    \A p \in Procs :
        PutsMapping(p)
        => \A pair \in Pairs \ {PairOf(p)} :
               LookupIn(tracked_entities', pair) = LookupIn(tracked_entities, pair)

C37_PairIsolation == [][C37_PairIsolationStep]_vars
\* ------------------------------------------------------------------ C38
\* C38: while the create-incident requests of one class for one entity
\* that stored a mapping are the only writers of the key, the key holds
\* the mapping of the one whose put came last, with the ticket_id that
\* request was handed; and a create-incident request of that class for
\* that entity, started after all of them were answered and whose lookup
\* is served, answers 200 {exists:true} with exactly that ticket_id and
\* invokes no RPC.
Creators(r) ==
    {p \in Procs \ {r} :
        /\ handler[p] = handler[r] /\ req[p].entity_id = req[r].entity_id
        /\ IsIncident(p) /\ CreatedTicket(p)}

C38_RaceOutcome ==
    \A r \in Procs :
        (/\ IsIncident(r) /\ loc[r].get \in {"hit", "miss"}
         /\ Cardinality(Creators(r)) >= 2
         /\ \A p \in Creators(r) : Before(p, r))
        => /\ loc[r].key \in DOMAIN tracked_entities
           /\ writer[loc[r].key] \in Creators(r)
           /\ Stored(loc[r].key).external_entity_id = SysIDOf(writer[loc[r].key])
           /\ resp[r] = Response(StatusOK,
                                 CreateIncidentResponse(TRUE,
                                                        Stored(loc[r].key).external_entity_id,
                                                        BoundTicketType(r)))
           /\ ~Issued(r, "rpc")

\* two racing requests were handed different tickets, both stored, and a
\* third request started after both was answered the ticket of the later
\* put
C38_Witness ==
    \E p, q, r \in Procs :
        /\ RacingIncidents(p, q) /\ CreatedTicket(p) /\ CreatedTicket(q)
        /\ SysIDOf(p) # SysIDOf(q)
        /\ Creators(r) = {p, q} /\ Before(p, r) /\ Before(q, r)
        /\ IsIncident(r) /\ resp[r].code = StatusOK
        /\ writer[loc[r].key] = q
        /\ resp[r].body.ticket_id = SysIDOf(q)
        /\ calls[r] = <<"get">>
\* ------------------------------------------------------------------ C39
\* C39: from the empty dedup_store and under any interleaving and any
\* clock, whenever a throttle request has been answered {allowed:false}
\* there is a throttle request on the same dedup key, under the same
\* bucket label, whose put succeeded and which has been answered
\* {allowed:true}.
LetThrough(p) ==
    {q \in Procs \ {p} :
        /\ Finished(q, "throttle") /\ loc[q].key = loc[p].key
        /\ loc[q].bucket = loc[p].bucket
        /\ loc[q].put = "ok" /\ Allowed(q)}

C39_NoTotalSuppression ==
    \A p \in Procs :
        (Finished(p, "throttle") /\ Denied(p)) => LetThrough(p) # {}

\* two requests were let through on one key and a third, that started
\* before either was answered, was denied
C39_Witness ==
    \E p \in Procs :
        /\ Finished(p, "throttle") /\ Denied(p)
        /\ Cardinality(LetThrough(p)) = 2
        /\ \A q \in LetThrough(p) : ~Before(q, p)
====
